---- MODULE Spec2Model ----
(***************************************************************************)
(* A model of the rustfuck execution engine: the tape state, the BF-IR     *)
(* reference interpreter, HIR lowering and its interpreter, the two LIR    *)
(* passes and the LIR interpreter, and the AArch64 JIT's per-op effects.   *)
(*                                                                         *)
(* Encoding conventions                                                    *)
(*  - an instruction is a record [op, arg]; ops without an operand carry   *)
(*    arg = 0; CnstMovSet also carries set, a sequence of <<offset, delta>>*)
(*  - instruction indices and branch-table entries are 0-based as in the   *)
(*    source; TLA+ sequences are 1-based, so program.get(i) is p[i + 1].   *)
(*  - a usize that wrapped below zero (release build) is kept as its       *)
(*    negative representative: -1 stands for 2^64 - 1.                     *)
(***************************************************************************)
EXTENDS Integers, Sequences, FiniteSets, TLC

VARIABLES
    bf,               \* the BF-IR program (Vec<BfOp>)
    hir,              \* the HIR program (Vec<HirOp>)
    lir,              \* the LIR program (Vec<LirOp>)
    mach,             \* one record per interpreter run, keyed by backend
    turn,             \* the stages of the pipeline still to act
    overflow_checks,  \* build profile: TRUE = arithmetic overflow panics
    entry,            \* the tape state every run of this behaviour starts in
    text              \* the bytes of the program file, <<>> when IR is given

vars == <<bf, hir, lir, mach, turn, overflow_checks, entry, text>>

-----------------------------------------------------------------------------
(* Bounds *)

MaxBfLen == 5        \* longest BF-IR program drawn
MaxSteps == 520      \* instructions one interpreter run may execute
MaxHirLen == 5       \* longest HIR program drawn op by op
MaxBody == 4         \* longest Modify/Move loop body drawn
MaxSeed == 2         \* largest cell value a drawn loop is entered with
MaxTableLen == 5     \* longest bracket sequence drawn, balanced or not
MaxDelta == 257      \* longest run of Inc or of Dec fed to one Modify
MaxLoop == 4         \* longest Modify/Move loop body given to Pass B alone
MaxIters == 3        \* iterations of such a loop that are followed
MaxTape == 2         \* cells of the tape such a loop is entered with
MaxLoopDelta == 2    \* largest |d| of the Modify(d) in a single-Modify loop
MaxMoveRun == 2      \* longest run of MvRight/MvLeft in a transfer-shaped loop
MaxOff == 2          \* largest |off| of a MoveCell(off) run on both backends
MaxTapeProg == 3     \* longest LIR program run to visit tape states
MaxText == 4          \* longest program text parsed
MaxIoBody == 3       \* longest body of a loop that reads or prints
MaxRepeat == 2       \* largest --repeat count handed to run_n
MaxRepeatLen == 3    \* longest program run repeatedly
MaxFrameProg == 2    \* longest program run to watch what one instruction leaves alone
MaxHopTape == 4      \* longest tape a Hop is started on
MaxStride == 2       \* largest stride of that Hop

-----------------------------------------------------------------------------
(* Instructions *)

Op0(name) == [op |-> name, arg |-> 0]
Op1(name, a) == [op |-> name, arg |-> a]

Inc == Op0("Inc")
Dec == Op0("Dec")
MvRight == Op0("MvRight")
MvLeft == Op0("MvLeft")
In == Op0("In")
Out == Op0("Out")
BrFor == Op0("BrFor")
BrBack == Op0("BrBack")
Modify(delta) == Op1("Modify", delta)
Move(delta) == Op1("Move", delta)
WriteZero == Op0("WriteZero")
Hop(delta) == Op1("Hop", delta)
MoveCell(delta) == Op1("MoveCell", delta)
CnstMovSet(set) == [op |-> "CnstMovSet", arg |-> 0, set |-> set]
Meta(tag) == Op1("Meta", tag)

\* program.get(i): the instruction at 0-based index i, or None
None == [op |-> "None", arg |-> 0]
Get(program, i) == IF i >= 0 /\ i < Len(program) THEN program[i + 1] ELSE None

\* slice[from..]
SliceFrom(s, from) == SubSeq(s, from + 1, Len(s))

Abs(n) == IF n < 0 THEN -n ELSE n

-----------------------------------------------------------------------------
(* state.rs: the tape *)

\* BrainfuckState::new
NewState == [cells |-> <<>>, pos |-> 0]

\* Vec::resize(n, 0)
Resize(cells, n) ==
    IF n <= Len(cells) THEN SubSeq(cells, 1, n)
    ELSE cells \o [k \in 1..(n - Len(cells)) |-> 0]

\* an index past the end reading the last cell instead of zero
read_cell_clamped(state, i) ==
    IF i >= 0 /\ i < Len(state.cells) THEN state.cells[i + 1]
    ELSE IF state.cells = <<>> THEN 0
    ELSE state.cells[Len(state.cells)]

read_cell(state, i) ==
    IF i >= 0 /\ i < Len(state.cells) THEN state.cells[i + 1] ELSE 0

read_cur_cell(state) == read_cell(state, state.pos)

\* A write through an index that wrapped below zero cannot succeed:
\* resize(i + 1) either exceeds the capacity limit or, for i = 2^64 - 1,
\* wraps to resize(0) and the indexing that follows is out of bounds.
WriteFaults(i) == i < 0

\* the write that leaves the cursor on the cell written
set_cell_seeking(state, val, i) ==
    LET grown == IF i >= Len(state.cells) THEN Resize(state.cells, i + 1)
                 ELSE state.cells
    IN  [cells |-> [grown EXCEPT ![i + 1] = val], pos |-> i]

\* resize(i + 1, 0) without the length test: a longer tape is cut
set_cell_exact(state, val, i) ==
    [state EXCEPT !.cells = [Resize(state.cells, i + 1) EXCEPT ![i + 1] = val]]

set_cell(state, val, i) ==
    LET grown == IF i >= Len(state.cells) THEN Resize(state.cells, i + 1)
                 ELSE state.cells
    IN  [state EXCEPT !.cells = [grown EXCEPT ![i + 1] = val]]

set_cur_cell(state, val) == set_cell(state, val, state.pos)

\* a cast that clamps to the i8 range instead of truncating
AsI8_saturating(d) == IF d > 127 THEN 127 ELSE IF d < -128 THEN -128 ELSE d

\* `as i8` on an isize, `as u8` on an i32
AsI8(d) == ((d + 128) % 256) - 128
AsU8(d) == d % 256

modify_cur_cell_by(state, arg) ==
    LET grown == IF state.pos >= Len(state.cells)
                 THEN Resize(state.cells, state.pos + 1) ELSE state.cells
    IN  [state EXCEPT !.cells =
            [grown EXCEPT ![state.pos + 1] = AsU8(grown[state.pos + 1] + arg)]]

\* the offset applied without its sign
add_offset_size_unsigned(dst, delta) == dst + Abs(delta)

add_offset_size(dst, delta) ==
    IF delta > 0 THEN dst + delta ELSE dst - Abs(delta)

\* the usize addition or subtraction leaves 0 .. 2^64 - 1
SizeOverflows(dst, delta) ==
    \/ dst >= 0 /\ dst + delta < 0
    \/ dst < 0 /\ dst + delta >= 0

\* the addition and subtraction without the wrap of overflowing_add/_sub
add_offset_8_unwrapped(dst, delta) ==
    IF delta > 0 THEN dst + delta ELSE dst - Abs(delta)

add_offset_8(dst, delta) ==
    IF delta > 0 THEN (dst + delta) % 256 ELSE (dst - Abs(delta)) % 256

\* modify_cur_cell_with(|c| add_offset_8(c, delta as i8))
modify_cur_cell_with(state, delta) ==
    LET grown == IF state.pos >= Len(state.cells)
                 THEN Resize(state.cells, state.pos + 1) ELSE state.cells
    IN  [state EXCEPT !.cells =
            [grown EXCEPT ![state.pos + 1] =
                add_offset_8(grown[state.pos + 1], AsI8(delta))]]

-----------------------------------------------------------------------------
(* One interpreter run *)

\* steps counts the instructions executed; below records whether the
\* position has ever been under the origin (both are history, not program
\* state)
NewRun(program) ==
    [program |-> program, branch_table |-> <<>>, instr_pointer |-> 0,
     state |-> entry, out |-> <<>>, steps |-> 0, below |-> FALSE,
     status |-> IF Len(program) = 0 THEN "done" ELSE "run"]

Idle == [program |-> <<>>, branch_table |-> <<>>, instr_pointer |-> 0,
         state |-> NewState, out |-> <<>>, steps |-> 0, below |-> FALSE,
         status |-> "idle"]

Panic(m) == [m EXCEPT !.status = "panic"]

\* the loop stopping one instruction early
Advance_early(m) ==
    [m EXCEPT !.instr_pointer = @ + 1,
              !.steps = @ + 1,
              !.below = @ \/ m.state.pos < 0,
              !.status = IF m.instr_pointer + 2 >= Len(m.program)
                         THEN "done" ELSE "run"]

\* instr_pointer += 1, then the `while let Some(..) = program.get(..)` test
Advance(m) ==
    [m EXCEPT !.instr_pointer = @ + 1,
              !.steps = @ + 1,
              !.below = @ \/ m.state.pos < 0,
              !.status = IF m.instr_pointer + 1 >= Len(m.program)
                         THEN "done" ELSE "run"]

-----------------------------------------------------------------------------
(* parser.rs: the reference interpreter *)

\* the forward scan without the depth count: the first BrBack ends it
RECURSIVE BfScanFwd_first_close(_, _, _)
BfScanFwd_first_close(program, pos, depth) ==
    LET p == pos + 1
        c == Get(program, p)
    IN  IF c.op = "None" THEN -1
        ELSE IF c.op = "BrBack" THEN p
        ELSE BfScanFwd_first_close(program, p, depth)

RECURSIVE BfScanFwd(_, _, _)
BfScanFwd(program, pos, depth) ==
    LET p == pos + 1
        c == Get(program, p)
    IN  IF c.op = "None" THEN -1
        ELSE IF c.op = "BrFor" THEN BfScanFwd(program, p, depth + 1)
        ELSE IF c.op = "BrBack" /\ depth > 0 THEN BfScanFwd(program, p, depth - 1)
        ELSE IF c.op = "BrBack" THEN p
        ELSE BfScanFwd(program, p, depth)

RECURSIVE BfScanBack(_, _, _)
BfScanBack(program, pos, depth) ==
    LET p == pos - 1
        c == Get(program, p)
    IN  IF c.op = "None" THEN -1
        ELSE IF c.op = "BrBack" THEN BfScanBack(program, p, depth + 1)
        ELSE IF c.op = "BrFor" /\ depth > 0 THEN BfScanBack(program, p, depth - 1)
        ELSE IF c.op = "BrFor" THEN p
        ELSE BfScanBack(program, p, depth)

\* one turn of the loop of BfInterpreter::execute; byte is what stdin yields
BfExec(m, byte) ==
    LET command == Get(m.program, m.instr_pointer)
        state == m.state
        zero == read_cur_cell(state) = 0
    IN  CASE command.op = "MvRight" ->
                Advance([m EXCEPT !.state.pos = @ + 1])
          [] command.op = "MvLeft" /\ state.pos = 0 -> Panic(m)
          [] command.op = "MvLeft" /\ state.pos # 0 ->
                Advance([m EXCEPT !.state.pos = @ - 1])
          [] command.op = "Inc" ->
                Advance([m EXCEPT !.state = modify_cur_cell_by(state, 1)])
          [] command.op = "Dec" ->
                Advance([m EXCEPT !.state = modify_cur_cell_by(state, -1)])
          [] command.op = "Out" ->
                Advance([m EXCEPT !.out = Append(@, read_cur_cell(state))])
          [] command.op = "In" ->
                Advance([m EXCEPT !.state = set_cur_cell(state, byte)])
          [] command.op = "BrFor" /\ zero ->
                LET pos == BfScanFwd(m.program, m.instr_pointer, 0)
                IN  IF pos < 0 THEN Panic(m)
                    ELSE Advance([m EXCEPT !.instr_pointer = pos])
          [] command.op = "BrBack" /\ ~zero ->
                LET pos == BfScanBack(m.program, m.instr_pointer, 0)
                IN  IF pos < 0 THEN Panic(m)
                    ELSE Advance([m EXCEPT !.instr_pointer = pos])
          [] OTHER -> Advance(m)

-----------------------------------------------------------------------------
(* hir.rs: lowering BF-IR to HIR *)

\* the sum with both instructions of the run counted as +1
RECURSIVE TakeRun_unsigned(_, _, _, _)
TakeRun_unsigned(ops, pos, plus, minus) ==
    IF Get(ops, pos).op \in {plus, minus}
    THEN LET rest == TakeRun_unsigned(ops, pos + 1, plus, minus)
         IN  <<rest[1] + 1, rest[2] + 1>>
    ELSE <<0, 0>>

\* a run cut after its first instruction: nothing is coalesced
TakeRun_one(ops, pos, plus, minus) ==
    LET c == Get(ops, pos)
    IN  IF c.op = plus THEN <<1, 1>>
        ELSE IF c.op = minus THEN <<1, -1>>
        ELSE <<0, 0>>

\* the take_while(..).map(..).sum() of one run: <<ops consumed, delta>>;
\* take_while stops at the first index that holds neither instruction
TakeRun(ops, pos, plus, minus) ==
    LET stops == {e \in pos..Len(ops) : Get(ops, e).op \notin {plus, minus}}
        end == CHOOSE e \in stops : \A y \in stops : e <= y
        taken == pos..(end - 1)
    IN  <<end - pos,
          Cardinality({k \in taken : Get(ops, k).op = plus})
            - Cardinality({k \in taken : Get(ops, k).op = minus})>>

RECURSIVE LowerFrom(_, _)
LowerFrom(ops, pos) ==
    LET bf_op == Get(ops, pos)
    IN  IF bf_op.op = "None" THEN <<>>
        ELSE IF bf_op.op \in {"Inc", "Dec"} THEN
            LET run == TakeRun(ops, pos, "Inc", "Dec")
            IN  <<Modify(run[2])>> \o LowerFrom(ops, pos + run[1])
        ELSE IF bf_op.op \in {"MvRight", "MvLeft"} THEN
            LET run == TakeRun(ops, pos, "MvRight", "MvLeft")
            IN  <<Move(run[2])>> \o LowerFrom(ops, pos + run[1])
        ELSE <<Op0(bf_op.op)>> \o LowerFrom(ops, pos + 1)

\* HirGen::lower
lower(ops) == LowerFrom(ops, 0)

\* "c".repeat(n)
Repeat(c, n) == [k \in 1..n |-> c]

\* the expansion with the sign of the argument dropped
to_compact_unsigned(h) ==
    CASE h.op = "Modify" -> Repeat("+", Abs(h.arg))
      [] h.op = "Move" -> Repeat(">", Abs(h.arg))
      [] h.op = "In" -> <<",">>
      [] h.op = "Out" -> <<".">>
      [] h.op = "BrFor" -> <<"[">>
      [] h.op = "BrBack" -> <<"]">>
      [] OTHER -> <<"!">>

\* IrLike for HirOp::to_compact, a string as a sequence of characters
to_compact(h) ==
    CASE h.op = "Modify" ->
            IF h.arg > 0 THEN Repeat("+", h.arg) ELSE Repeat("-", Abs(h.arg))
      [] h.op = "Move" ->
            IF h.arg > 0 THEN Repeat(">", h.arg) ELSE Repeat("<", Abs(h.arg))
      [] h.op = "In" -> <<",">>
      [] h.op = "Out" -> <<".">>
      [] h.op = "BrFor" -> <<"[">>
      [] h.op = "BrBack" -> <<"]">>
      [] OTHER -> <<"!">>

RECURSIVE CompactAll(_)
CompactAll(h) ==
    IF h = <<>> THEN <<>> ELSE to_compact(Head(h)) \o CompactAll(Tail(h))

\* the match with an arm that ends the loop at the first other byte
RECURSIVE parse_until_other(_)
parse_until_other(program) ==
    IF program = <<>> THEN <<>>
    ELSE LET c == Head(program)
         IN  CASE c = "+" -> <<Inc>> \o parse_until_other(Tail(program))
               [] c = "-" -> <<Dec>> \o parse_until_other(Tail(program))
               [] c = ">" -> <<MvRight>> \o parse_until_other(Tail(program))
               [] c = "<" -> <<MvLeft>> \o parse_until_other(Tail(program))
               [] c = "." -> <<Out>> \o parse_until_other(Tail(program))
               [] c = "," -> <<In>> \o parse_until_other(Tail(program))
               [] c = "[" -> <<BrFor>> \o parse_until_other(Tail(program))
               [] c = "]" -> <<BrBack>> \o parse_until_other(Tail(program))
               [] OTHER -> <<>>

\* the byte-to-BfOp match of HirGen::gen and BfParser::parse
RECURSIVE parse(_)
parse(program) ==
    IF program = <<>> THEN <<>>
    ELSE LET c == Head(program)
             one == CASE c = "+" -> <<Inc>>
                      [] c = "-" -> <<Dec>>
                      [] c = ">" -> <<MvRight>>
                      [] c = "<" -> <<MvLeft>>
                      [] c = "." -> <<Out>>
                      [] c = "," -> <<In>>
                      [] c = "[" -> <<BrFor>>
                      [] c = "]" -> <<BrBack>>
                      [] OTHER -> <<>>
         IN  one \o parse(Tail(program))

\* HirGen::gen
gen(program) == lower(parse(program))

-----------------------------------------------------------------------------
(* hir.rs: the branch table and the HIR interpreter *)

\* the inner `loop` of gen_branch_table: the index bound to the BrFor at
\* instr_pointer, or -1 when program.get(pos) runs off the end
\* the scan without the depth count: the first BrBack is bound
RECURSIVE HirMatch_first_close(_, _, _)
HirMatch_first_close(program, pos, depth) ==
    LET p == pos + 1
        c == Get(program, p)
    IN  IF c.op = "None" THEN -1
        ELSE IF c.op = "BrBack" THEN p
        ELSE HirMatch_first_close(program, p, depth)

RECURSIVE HirMatch(_, _, _)
HirMatch(program, pos, depth) ==
    LET p == pos + 1
        c == Get(program, p)
    IN  IF c.op = "None" THEN -1
        ELSE IF c.op = "BrFor" THEN HirMatch(program, p, depth + 1)
        ELSE IF c.op = "BrBack" /\ depth > 0 THEN HirMatch(program, p, depth - 1)
        ELSE IF c.op = "BrBack" THEN p
        ELSE HirMatch(program, p, depth)

RECURSIVE HirTableFrom(_, _, _)
HirTableFrom(program, instr_pointer, table) ==
    IF instr_pointer >= Len(program) THEN [ok |-> TRUE, table |-> table]
    ELSE IF program[instr_pointer + 1].op = "BrFor" THEN
        LET pos == HirMatch(program, instr_pointer, 0)
        IN  IF pos < 0 THEN [ok |-> FALSE, table |-> table]
            ELSE HirTableFrom(program, instr_pointer + 1,
                    [table EXCEPT ![instr_pointer + 1] = pos,
                                  ![pos + 1] = instr_pointer])
    ELSE HirTableFrom(program, instr_pointer + 1, table)

\* the builder with the None arm skipping the bracket instead of panicking
hir_gen_branch_table_lenient(program) ==
    [HirTableFrom(program, 0, [k \in 1..Len(program) |-> 0]) EXCEPT !.ok = TRUE]

\* HirInterpreter::gen_branch_table; ok = FALSE is the unreachable!() panic
hir_gen_branch_table(program) ==
    HirTableFrom(program, 0, [k \in 1..Len(program) |-> 0])

\* the start of HirInterpreter::execute
HirStart(program) ==
    LET t == hir_gen_branch_table(program)
    IN  IF t.ok THEN [NewRun(program) EXCEPT !.branch_table = t.table]
        ELSE Panic([NewRun(program) EXCEPT !.branch_table = t.table])

\* one turn of the loop of HirInterpreter::execute
HirExec(m, byte, checks) ==
    LET command == Get(m.program, m.instr_pointer)
        state == m.state
        zero == read_cur_cell(state) = 0
    IN  CASE command.op = "Modify" ->
                IF WriteFaults(state.pos) THEN Panic(m)
                ELSE Advance([m EXCEPT !.state =
                                modify_cur_cell_with(state, command.arg)])
          [] command.op = "Move" ->
                IF checks /\ SizeOverflows(state.pos, command.arg) THEN Panic(m)
                ELSE Advance([m EXCEPT !.state.pos =
                                add_offset_size(@, command.arg)])
          [] command.op = "Out" ->
                Advance([m EXCEPT !.out = Append(@, read_cur_cell(state))])
          [] command.op = "In" ->
                IF WriteFaults(state.pos) THEN Panic(m)
                ELSE Advance([m EXCEPT !.state = set_cur_cell(state, byte)])
          [] command.op = "BrFor" ->
                IF zero
                THEN Advance([m EXCEPT !.instr_pointer =
                                m.branch_table[m.instr_pointer + 1]])
                ELSE Advance(m)
          [] command.op = "BrBack" ->
                IF ~zero
                THEN Advance([m EXCEPT !.instr_pointer =
                                m.branch_table[m.instr_pointer + 1]])
                ELSE Advance(m)

-----------------------------------------------------------------------------
(* lir.rs: lowering HIR to LIR *)

NoOpt == [some |-> FALSE, opt |-> <<>>, skip |-> 0]

\* .position(|op| matches!(op, BrFor | BrBack)) over slice[1..], plus 1;
\* -1 for None
RECURSIVE LoopEnd(_, _)
LoopEnd(slice, k) ==
    IF k >= Len(slice) THEN -1
    ELSE IF slice[k + 1].op \in {"BrFor", "BrBack"} THEN k
    ELSE LoopEnd(slice, k + 1)

\* the MoveCell arm without the Modify(-1) / Modify(1) literals: any
\* Modify, Move(d), Modify, Move(-d) body is taken for a cell transfer
try_opt_simple_hir_loop_any_modify(slice) ==
    LET loop_end == LoopEnd(slice, 1)
    IN  IF loop_end < 0 THEN NoOpt
        ELSE IF slice[loop_end + 1].op = "BrFor" THEN NoOpt
        ELSE
            LET loop_content == SubSeq(slice, 2, loop_end)
            IN  IF Len(loop_content) = 1 /\ loop_content[1].op = "Modify"
                THEN [some |-> TRUE, opt |-> <<WriteZero>>, skip |-> 2]
                ELSE IF Len(loop_content) = 1 /\ loop_content[1].op = "Move"
                THEN [some |-> TRUE, opt |-> <<Hop(loop_content[1].arg)>>,
                      skip |-> 2]
                ELSE IF /\ Len(loop_content) = 4
                        /\ loop_content[1].op = "Modify"
                        /\ loop_content[2].op = "Move"
                        /\ loop_content[3].op = "Modify"
                        /\ loop_content[4].op = "Move"
                        /\ loop_content[2].arg = -loop_content[4].arg
                THEN [some |-> TRUE, opt |-> <<MoveCell(loop_content[2].arg)>>,
                      skip |-> 5]
                ELSE NoOpt

\* the WriteZero arm skipping one op too few: the BrBack of the loop stays
try_opt_simple_hir_loop_short_skip(slice) ==
    LET loop_end == LoopEnd(slice, 1)
    IN  IF loop_end < 0 THEN NoOpt
        ELSE IF slice[loop_end + 1].op = "BrFor" THEN NoOpt
        ELSE
            LET loop_content == SubSeq(slice, 2, loop_end)
            IN  IF Len(loop_content) = 1 /\ loop_content[1].op = "Modify"
                THEN [some |-> TRUE, opt |-> <<WriteZero>>, skip |-> 1]
                ELSE IF Len(loop_content) = 1 /\ loop_content[1].op = "Move"
                THEN [some |-> TRUE, opt |-> <<Hop(loop_content[1].arg)>>,
                      skip |-> 2]
                ELSE IF /\ Len(loop_content) = 4
                        /\ loop_content[1] = Modify(-1)
                        /\ loop_content[2].op = "Move"
                        /\ loop_content[3] = Modify(1)
                        /\ loop_content[4].op = "Move"
                        /\ loop_content[2].arg = -loop_content[4].arg
                THEN [some |-> TRUE, opt |-> <<MoveCell(loop_content[2].arg)>>,
                      skip |-> 5]
                ELSE NoOpt

\* LirGen::try_opt_simple_hir_loop on the window hir[pos..]
try_opt_simple_hir_loop(slice) ==
    LET loop_end == LoopEnd(slice, 1)
    IN  IF loop_end < 0 THEN NoOpt
        ELSE IF slice[loop_end + 1].op = "BrFor" THEN NoOpt
        ELSE
            LET loop_content == SubSeq(slice, 2, loop_end)
            IN  IF Len(loop_content) = 1 /\ loop_content[1].op = "Modify"
                THEN [some |-> TRUE, opt |-> <<WriteZero>>, skip |-> 2]
                ELSE IF Len(loop_content) = 1 /\ loop_content[1].op = "Move"
                THEN [some |-> TRUE, opt |-> <<Hop(loop_content[1].arg)>>,
                      skip |-> 2]
                ELSE IF /\ Len(loop_content) = 4
                        /\ loop_content[1] = Modify(-1)
                        /\ loop_content[2].op = "Move"
                        /\ loop_content[3] = Modify(1)
                        /\ loop_content[4].op = "Move"
                        /\ loop_content[2].arg = -loop_content[4].arg
                THEN [some |-> TRUE, opt |-> <<MoveCell(loop_content[2].arg)>>,
                      skip |-> 5]
                ELSE NoOpt

\* the first loop of LirGen::gen_ir
RECURSIVE PassA(_, _)
PassA(h, pos) ==
    LET op == Get(h, pos)
    IN  IF op.op = "None" THEN <<>>
        ELSE IF op.op = "BrFor" THEN
            LET r == try_opt_simple_hir_loop(SliceFrom(h, pos))
            IN  IF r.some THEN r.opt \o PassA(h, pos + r.skip + 1)
                ELSE <<BrFor>> \o PassA(h, pos + 1)
        ELSE <<op>> \o PassA(h, pos + 1)

\* the `for op in loop_content` of try_opt_simple_lir_loop:
\* <<set, offset>> after the whole body
RECURSIVE Simulate(_, _, _)
Simulate(loop_content, set, offset) ==
    IF loop_content = <<>> THEN <<set, offset>>
    ELSE LET op == Head(loop_content)
         IN  IF op.op = "Move"
             THEN Simulate(Tail(loop_content), set, offset + op.arg)
             ELSE Simulate(Tail(loop_content),
                           Append(set, <<offset, op.arg>>), offset)

\* the rewrite without the test of the body: every simple loop is folded
try_opt_simple_lir_loop_any_body(slice) ==
    LET loop_end == LoopEnd(slice, 1)
    IN  IF loop_end < 0 THEN NoOpt
        ELSE IF slice[loop_end + 1].op = "BrFor" THEN NoOpt
        ELSE
            LET loop_content == SubSeq(slice, 2, loop_end)
                sim == Simulate(loop_content, <<>>, 0)
                fixup_mov == Move(sim[2])
            IN  [some |-> TRUE,
                 opt |-> <<BrFor, CnstMovSet(sim[1]), fixup_mov, BrBack>>,
                 skip |-> Len(loop_content) + 1]

\* the block without its fixup: the position is left where the loop began
try_opt_simple_lir_loop_no_fixup(slice) ==
    LET loop_end == LoopEnd(slice, 1)
    IN  IF loop_end < 0 THEN NoOpt
        ELSE IF slice[loop_end + 1].op = "BrFor" THEN NoOpt
        ELSE
            LET loop_content == SubSeq(slice, 2, loop_end)
            IN  IF \A k \in 1..Len(loop_content) :
                        loop_content[k].op \in {"Modify", "Move"}
                THEN LET sim == Simulate(loop_content, <<>>, 0)
                     IN  [some |-> TRUE,
                          opt |-> <<BrFor, CnstMovSet(sim[1]), Move(0), BrBack>>,
                          skip |-> Len(loop_content) + 1]
                ELSE NoOpt

\* LirGen::try_opt_simple_lir_loop on the window lir[pos..]
try_opt_simple_lir_loop(slice) ==
    LET loop_end == LoopEnd(slice, 1)
    IN  IF loop_end < 0 THEN NoOpt
        ELSE IF slice[loop_end + 1].op = "BrFor" THEN NoOpt
        ELSE
            LET loop_content == SubSeq(slice, 2, loop_end)
            IN  IF \A k \in 1..Len(loop_content) :
                        loop_content[k].op \in {"Modify", "Move"}
                THEN LET sim == Simulate(loop_content, <<>>, 0)
                         fixup_mov == Move(sim[2])
                     IN  [some |-> TRUE,
                          opt |-> <<BrFor, CnstMovSet(sim[1]), fixup_mov, BrBack>>,
                          skip |-> Len(loop_content) + 1]
                ELSE NoOpt

\* the second loop of LirGen::gen_ir
RECURSIVE PassB(_, _)
PassB(l, pos) ==
    LET op == Get(l, pos)
    IN  IF op.op = "None" THEN <<>>
        ELSE IF op.op = "BrFor" THEN
            LET r == try_opt_simple_lir_loop(SliceFrom(l, pos))
            IN  IF r.some THEN r.opt \o PassB(l, pos + r.skip + 1)
                ELSE <<BrFor>> \o PassB(l, pos + 1)
        ELSE <<op>> \o PassB(l, pos + 1)

\* LirGen::gen_ir
gen_ir(h) == PassB(PassA(h, 0), 0)

-----------------------------------------------------------------------------
(* lir.rs: the branch table and the LIR interpreter *)

RECURSIVE LirMatch(_, _, _)
LirMatch(program, pos, depth) ==
    LET p == pos + 1
        c == Get(program, p)
    IN  IF c.op = "None" THEN -1
        ELSE IF c.op = "BrFor" THEN LirMatch(program, p, depth + 1)
        ELSE IF c.op = "BrBack" /\ depth > 0 THEN LirMatch(program, p, depth - 1)
        ELSE IF c.op = "BrBack" THEN p
        ELSE LirMatch(program, p, depth)

RECURSIVE LirTableFrom(_, _, _)
LirTableFrom(program, instr_pointer, table) ==
    IF instr_pointer >= Len(program) THEN [ok |-> TRUE, table |-> table]
    ELSE IF program[instr_pointer + 1].op = "BrFor" THEN
        LET pos == LirMatch(program, instr_pointer, 0)
        IN  IF pos < 0 THEN [ok |-> FALSE, table |-> table]
            ELSE LirTableFrom(program, instr_pointer + 1,
                    [table EXCEPT ![instr_pointer + 1] = pos,
                                  ![pos + 1] = instr_pointer])
    ELSE LirTableFrom(program, instr_pointer + 1, table)

\* LirInterpreter::gen_branch_table; ok = FALSE is the unreachable!() panic
lir_gen_branch_table(program) ==
    LirTableFrom(program, 0, [k \in 1..Len(program) |-> 0])

\* the start of LirInterpreter::execute
LirStart(program) ==
    LET t == lir_gen_branch_table(program)
    IN  IF t.ok THEN [NewRun(program) EXCEPT !.branch_table = t.table]
        ELSE Panic([NewRun(program) EXCEPT !.branch_table = t.table])

\* the `for (offset, delta) in set` of the CnstMovSet arm
RECURSIVE ApplySet(_, _, _)
ApplySet(state, set, checks) ==
    IF set = <<>> THEN [ok |-> TRUE, state |-> state]
    ELSE LET offset == Head(set)[1]
             delta == Head(set)[2]
             target == add_offset_size(state.pos, offset)
             cur == read_cell(state, target)
             new == add_offset_8(cur, AsI8(delta))
         IN  IF checks /\ SizeOverflows(state.pos, offset)
             THEN [ok |-> FALSE, state |-> state]
             ELSE IF WriteFaults(target) THEN [ok |-> FALSE, state |-> state]
             ELSE ApplySet(set_cell(state, new, target), Tail(set), checks)

\* one turn of the loop of LirInterpreter::execute; a Hop whose cell is
\* nonzero takes one turn of its inner `while` and stays on the instruction
LirExec(m, byte, checks) ==
    LET command == Get(m.program, m.instr_pointer)
        state == m.state
        zero == read_cur_cell(state) = 0
    IN  CASE command.op = "Modify" ->
                IF WriteFaults(state.pos) THEN Panic(m)
                ELSE Advance([m EXCEPT !.state =
                                modify_cur_cell_with(state, command.arg)])
          [] command.op = "Move" ->
                IF checks /\ SizeOverflows(state.pos, command.arg) THEN Panic(m)
                ELSE Advance([m EXCEPT !.state.pos =
                                add_offset_size(@, command.arg)])
          [] command.op = "Out" ->
                Advance([m EXCEPT !.out = Append(@, read_cur_cell(state))])
          [] command.op = "In" ->
                IF WriteFaults(state.pos) THEN Panic(m)
                ELSE Advance([m EXCEPT !.state = set_cur_cell(state, byte)])
          [] command.op = "BrFor" ->
                IF zero
                THEN Advance([m EXCEPT !.instr_pointer =
                                m.branch_table[m.instr_pointer + 1]])
                ELSE Advance(m)
          [] command.op = "BrBack" ->
                IF ~zero
                THEN Advance([m EXCEPT !.instr_pointer =
                                m.branch_table[m.instr_pointer + 1]])
                ELSE Advance(m)
          [] command.op = "WriteZero" ->
                IF WriteFaults(state.pos) THEN Panic(m)
                ELSE Advance([m EXCEPT !.state = set_cur_cell(state, 0)])
          [] command.op = "Hop" ->
                IF read_cur_cell(state) > 0
                THEN IF checks /\ SizeOverflows(state.pos, command.arg)
                     THEN Panic(m)
                     ELSE [m EXCEPT !.state.pos = add_offset_size(@, command.arg),
                                    !.steps = @ + 1,
                                    !.below = @ \/ add_offset_size(
                                                state.pos, command.arg) < 0]
                ELSE Advance(m)
          [] command.op = "MoveCell" ->
                IF ~zero
                THEN LET target == add_offset_size(state.pos, command.arg)
                         sum == (read_cell(state, target)
                                    + read_cur_cell(state)) % 256
                     IN  IF checks /\ SizeOverflows(state.pos, command.arg)
                         THEN Panic(m)
                         ELSE IF WriteFaults(target) THEN Panic(m)
                         ELSE Advance([m EXCEPT !.state =
                                set_cur_cell(set_cell(state, sum, target), 0)])
                ELSE Advance(m)
          [] command.op = "Meta" -> Advance(m)
          [] command.op = "CnstMovSet" ->
                LET r == ApplySet(state, command.set, checks)
                IN  IF r.ok THEN Advance([m EXCEPT !.state = r.state])
                    ELSE Panic(m)

-----------------------------------------------------------------------------
(* jit.rs: the code the JIT emits, run on the caller's two buffers.        *)
(* A label pair is named by the index of the BrFor that allocated it; the  *)
(* emitted code is the LIR program with each branch resolved to the index  *)
(* of the instruction its label is bound in front of.                      *)

\* let mut cells = [0u8; 30_000]; let mut buff = [0u8; 30_000]
JitCells == 30000
JitBuff == 30000

\* the labels taken from the front of the deque: pop_front for pop_back
RECURSIVE JitEmitFrom_queue(_, _, _, _)
JitEmitFrom_queue(program, k, branch_table, target) ==
    IF k >= Len(program)
    THEN [ok |-> branch_table = <<>>, target |-> target]
    ELSE IF program[k + 1].op = "BrFor"
    THEN JitEmitFrom_queue(program, k + 1, Append(branch_table, k), target)
    ELSE IF program[k + 1].op = "BrBack"
    THEN IF branch_table = <<>> THEN [ok |-> FALSE, target |-> target]
         ELSE LET pair == Head(branch_table)
                  rest == Tail(branch_table)
              IN  JitEmitFrom_queue(program, k + 1, rest,
                    [target EXCEPT ![pair + 1] = k + 1, ![k + 1] = pair + 1])
    ELSE JitEmitFrom_queue(program, k + 1, branch_table, target)

\* the `for op in program` of Jit::jit: BrFor pushes its pair, BrBack pops
\* one and binds for_branch behind itself; back_branch was bound behind the
\* BrFor.  ok = FALSE is expect("unmatched loop") or the final assert!
RECURSIVE JitEmitFrom(_, _, _, _)
JitEmitFrom(program, k, branch_table, target) ==
    IF k >= Len(program)
    THEN [ok |-> branch_table = <<>>, target |-> target]
    ELSE IF program[k + 1].op = "BrFor"
    THEN JitEmitFrom(program, k + 1, Append(branch_table, k), target)
    ELSE IF program[k + 1].op = "BrBack"
    THEN IF branch_table = <<>> THEN [ok |-> FALSE, target |-> target]
         ELSE LET pair == branch_table[Len(branch_table)]
                  rest == SubSeq(branch_table, 1, Len(branch_table) - 1)
              IN  JitEmitFrom(program, k + 1, rest,
                    [target EXCEPT ![pair + 1] = k + 1, ![k + 1] = pair + 1])
    ELSE JitEmitFrom(program, k + 1, branch_table, target)

JitEmit(program) ==
    JitEmitFrom(program, 0, <<>>, [k \in 1..Len(program) |-> 0])

\* the caller's side of the call: both arrays zeroed, x0 and x1 at their
\* starts.  state.pos is x0 - cells.as_mut_ptr(); buff holds the bytes
\* stored through x1 so far, so x1 - buff.as_mut_ptr() = Len(buff)
JitStart(program) ==
    LET e == JitEmit(program)
    IN  [program |-> program, branch_table |-> e.target, instr_pointer |-> 0,
         state |-> NewState, buff |-> <<>>, out |-> <<>>, steps |-> 0,
         below |-> FALSE,
         status |-> IF ~e.ok THEN "panic"
                    ELSE IF Len(program) = 0 THEN "returned" ELSE "run"]

\* an ldrb or strb through address cells + i stays inside the array
InCells(i) == i >= 0 /\ i < JitCells

\* ldrb w2, [x5] ; mov x3, abs_delta ; add/sub x2, x2, x3 ; strb w2, [x5]
JitModifyAt(state, delta, x5) ==
    LET w2 == read_cell(state, x5)
        abs_delta == Abs(delta)
    IN  set_cell(state,
                 IF delta > 0 THEN (w2 + abs_delta) % 256
                 ELSE (w2 - abs_delta) % 256,
                 x5)

\* x5 = x0 +/- abs_offset
JitOffsetAddr(x0, offset) ==
    IF offset >= 1 THEN x0 + Abs(offset)
    ELSE IF offset <= -1 THEN x0 - Abs(offset)
    ELSE x0

\* the OffsetModify(delta, offset) arm once per pair of a CnstMovSet, in
\* order
RECURSIVE JitOffsetModifies(_, _)
JitOffsetModifies(state, set) ==
    IF set = <<>> THEN [ok |-> TRUE, state |-> state]
    ELSE LET x5 == JitOffsetAddr(state.pos, Head(set)[1])
         IN  IF ~InCells(x5) THEN [ok |-> FALSE, state |-> state]
             ELSE JitOffsetModifies(JitModifyAt(state, Head(set)[2], x5),
                                    Tail(set))

\* control moves to instruction next; running off the end reaches `ret`
JitGoto(m, next) ==
    [m EXCEPT !.instr_pointer = next,
              !.steps = @ + 1,
              !.status = IF next >= Len(m.program) THEN "returned" ELSE "run"]

\* a load or store outside the two arrays: undefined behaviour
JitUb(m) == [m EXCEPT !.status = "ub"]

\* the code emitted for one LIR instruction, executed once; the loop of a
\* Hop takes one turn per step
JitExec(m) ==
    LET command == Get(m.program, m.instr_pointer)
        state == m.state
        x0 == state.pos
        next == m.instr_pointer + 1
    IN  CASE command.op = "Modify" ->
                IF ~InCells(x0) THEN JitUb(m)
                ELSE JitGoto([m EXCEPT !.state =
                                JitModifyAt(state, command.arg, x0)], next)
          [] command.op = "CnstMovSet" ->
                LET r == JitOffsetModifies(state, command.set)
                IN  IF r.ok THEN JitGoto([m EXCEPT !.state = r.state], next)
                    ELSE JitUb(m)
          [] command.op = "Move" ->
                JitGoto([m EXCEPT !.state.pos =
                            IF command.arg > 0 THEN x0 + Abs(command.arg)
                            ELSE x0 - Abs(command.arg)], next)
          [] command.op = "WriteZero" ->
                IF ~InCells(x0) THEN JitUb(m)
                ELSE JitGoto([m EXCEPT !.state = set_cell(state, 0, x0)], next)
          [] command.op = "Hop" ->
                IF ~InCells(x0) THEN JitUb(m)
                ELSE IF read_cell(state, x0) = 0 THEN JitGoto(m, next)
                ELSE [m EXCEPT !.state.pos =
                            IF command.arg > 0 THEN x0 + Abs(command.arg)
                            ELSE x0 - Abs(command.arg),
                               !.steps = @ + 1]
          [] command.op = "MoveCell" ->
                LET x5 == IF command.arg > 0 THEN x0 + Abs(command.arg)
                          ELSE x0 - Abs(command.arg)
                    w2 == read_cell(state, x0)
                    zeroed == set_cell(state, 0, x0)
                    w3 == read_cell(zeroed, x5)
                IN  IF ~InCells(x0) THEN JitUb(m)
                    ELSE IF w2 = 0 THEN JitGoto(m, next)
                    ELSE IF ~InCells(x5) THEN JitUb(m)
                    ELSE JitGoto([m EXCEPT !.state =
                                    set_cell(zeroed, (w2 + w3) % 256, x5)], next)
          [] command.op = "In" -> JitGoto(m, next)
          [] command.op = "Out" ->
                IF ~InCells(x0) \/ Len(m.buff) >= JitBuff THEN JitUb(m)
                ELSE JitGoto([m EXCEPT !.buff =
                                Append(@, read_cell(state, x0))], next)
          [] command.op = "BrFor" ->
                IF ~InCells(x0) THEN JitUb(m)
                ELSE IF read_cell(state, x0) = 0
                THEN JitGoto(m, m.branch_table[m.instr_pointer + 1])
                ELSE JitGoto(m, next)
          [] command.op = "BrBack" ->
                IF ~InCells(x0) THEN JitUb(m)
                ELSE IF read_cell(state, x0) # 0
                THEN JitGoto(m, m.branch_table[m.instr_pointer + 1])
                ELSE JitGoto(m, next)
          [] command.op = "Meta" -> JitGoto(m, next)

\* buff.iter().position(|&b| b == 0): the array is zero behind the bytes
\* stored, so the search ends there at the latest
RECURSIVE FirstZero(_, _)
FirstZero(buff, k) ==
    IF k >= Len(buff) THEN k
    ELSE IF buff[k + 1] = 0 THEN k
    ELSE FirstZero(buff, k + 1)

\* io::stdout().write_all(&buff[0..position]); unwrap() of None panics when
\* all of the array is nonzero
JitFlushed(m) ==
    LET position == FirstZero(m.buff, 0)
    IN  IF position >= JitBuff THEN Panic(m)
        ELSE [m EXCEPT !.out = SubSeq(m.buff, 1, position),
                       !.status = "done"]

-----------------------------------------------------------------------------
(* Inputs *)

\* all sequences over alphabet of length at most n
SeqsUpTo(alphabet, n) == UNION {[1..k -> alphabet] : k \in 0..n}

\* nesting depth after the first k instructions
RECURSIVE DepthAfter(_, _)
DepthAfter(program, k) ==
    IF k = 0 THEN 0
    ELSE DepthAfter(program, k - 1)
            + (IF program[k].op = "BrFor" THEN 1
               ELSE IF program[k].op = "BrBack" THEN -1 ELSE 0)

Balanced(program) ==
    /\ \A k \in 1..Len(program) : DepthAfter(program, k) >= 0
    /\ DepthAfter(program, Len(program)) = 0

\* the input-free BF-IR alphabet
BfOps == {Inc, Dec, MvRight, MvLeft, Out, BrFor, BrBack}

BfPrograms == {p \in SeqsUpTo(BfOps, MaxBfLen) : Balanced(p)}

\* what a read of stdin can yield
InBytes == {0, 1, 255}
Feed(command) == IF command.op = "In" THEN InBytes ELSE {0}

\* lir0 is the LIR interpreter on a sequence Pass B has not seen
Machines ==
    [bf |-> Idle, hir |-> Idle, lir0 |-> Idle, lir |-> Idle, jit |-> Idle]

\* turn lists the stages still to come, in the order main would run them if
\* every backend were selected in turn; the first one is the stage acting
Stage == IF turn = <<>> THEN "end" ELSE Head(turn)

-----------------------------------------------------------------------------
(* Pipeline: source -> BF-IR -> HIR, the reference run, then the HIR run *)

Init ==
    /\ bf \in BfPrograms
    /\ hir = <<>>
    /\ lir = <<>>
    /\ mach = Machines
    /\ turn = <<"lower", "bf", "hir">>
    /\ overflow_checks \in BOOLEAN
    /\ text = <<>>
    /\ entry = NewState

\* HirGen::lower on the parsed program
Lower ==
    /\ Stage = "lower"
    /\ hir' = lower(bf)
    /\ turn' = Tail(turn)
    /\ UNCHANGED <<bf, lir, mach, overflow_checks, entry, text>>

\* BfInterpreter::execute is entered
BfBegin ==
    /\ Stage = "bf"
    /\ mach.bf.status = "idle"
    /\ mach' = [mach EXCEPT !.bf = NewRun(bf)]
    /\ UNCHANGED <<bf, hir, lir, turn, overflow_checks, entry, text>>

BfStep ==
    /\ Stage = "bf"
    /\ mach.bf.status = "run"
    /\ mach.bf.steps < MaxSteps
    /\ \E byte \in Feed(Get(mach.bf.program, mach.bf.instr_pointer)) :
            mach' = [mach EXCEPT !.bf = BfExec(@, byte)]
    /\ UNCHANGED <<bf, hir, lir, turn, overflow_checks, entry, text>>

\* BfInterpreter::execute has returned Ok
BfReturn ==
    /\ Stage = "bf"
    /\ mach.bf.status = "done"
    /\ turn' = Tail(turn)
    /\ UNCHANGED <<bf, hir, lir, mach, overflow_checks, entry, text>>

\* HirInterpreter::execute is entered: the branch table is built
HirBegin ==
    /\ Stage = "hir"
    /\ mach.hir.status = "idle"
    /\ mach' = [mach EXCEPT !.hir = HirStart(hir)]
    /\ UNCHANGED <<bf, hir, lir, turn, overflow_checks, entry, text>>

HirStep ==
    /\ Stage = "hir"
    /\ mach.hir.status = "run"
    /\ mach.hir.steps < MaxSteps
    /\ \E byte \in Feed(Get(mach.hir.program, mach.hir.instr_pointer)) :
            mach' = [mach EXCEPT !.hir = HirExec(@, byte, overflow_checks)]
    /\ UNCHANGED <<bf, hir, lir, turn, overflow_checks, entry, text>>

Next == Lower \/ BfBegin \/ BfStep \/ BfReturn \/ HirBegin \/ HirStep

Spec == Init /\ [][Next]_vars

-----------------------------------------------------------------------------
(* HIR -> LIR: the HIR run of an arbitrary HIR program, then the LIR run *)

HirDeltas == {-1, 1}
LoopOps == {Modify(d) : d \in HirDeltas} \cup {Move(d) : d \in HirDeltas}
HirOps == LoopOps \cup {Out, BrFor, BrBack}

\* every small balanced program
SmallHir == {p \in SeqsUpTo(HirOps, MaxHirLen) : Balanced(p)}

\* one simple Modify/Move loop entered with a nonzero cell, then one cell
\* next to the final position is printed
Seeds == {<<Move(a), Modify(s)>> : a \in 0..1, s \in 1..MaxSeed}
Probes == {<<Move(k), Out>> : k \in -1..1}
LoopHir ==
    {s \o <<BrFor>> \o b \o <<BrBack>> \o q :
        s \in Seeds, b \in SeqsUpTo(LoopOps, MaxBody), q \in Probes}

HirPrograms == SmallHir \cup LoopHir

InitHir ==
    /\ bf = <<>>
    /\ hir \in HirPrograms
    /\ lir = <<>>
    /\ mach = Machines
    /\ turn = <<"gen_ir", "hir", "lir">>
    /\ overflow_checks \in BOOLEAN
    /\ text = <<>>
    /\ entry = NewState

\* LirGen::gen_ir
GenIr ==
    /\ Stage = "gen_ir"
    /\ lir' = gen_ir(hir)
    /\ turn' = Tail(turn)
    /\ UNCHANGED <<bf, hir, mach, overflow_checks, entry, text>>

\* HirInterpreter::execute has returned Ok
HirReturn ==
    /\ Stage = "hir"
    /\ mach.hir.status = "done"
    /\ turn' = Tail(turn)
    /\ UNCHANGED <<bf, hir, lir, mach, overflow_checks, entry, text>>

\* LirInterpreter::execute is entered: the branch table is built
LirBegin ==
    /\ Stage = "lir"
    /\ mach.lir.status = "idle"
    /\ mach' = [mach EXCEPT !.lir = LirStart(lir)]
    /\ UNCHANGED <<bf, hir, lir, turn, overflow_checks, entry, text>>

LirStep ==
    /\ Stage = "lir"
    /\ mach.lir.status = "run"
    /\ mach.lir.steps < MaxSteps
    /\ \E byte \in Feed(Get(mach.lir.program, mach.lir.instr_pointer)) :
            mach' = [mach EXCEPT !.lir = LirExec(@, byte, overflow_checks)]
    /\ UNCHANGED <<bf, hir, lir, turn, overflow_checks, entry, text>>

NextHir == GenIr \/ HirBegin \/ HirStep \/ HirReturn \/ LirBegin \/ LirStep

SpecHir == InitHir /\ [][NextHir]_vars

-----------------------------------------------------------------------------
(* Claims *)

IsPrefix(s, t) == Len(s) <= Len(t) /\ SubSeq(t, 1, Len(s)) = s

\* C1: when the reference run of a balanced, input-free BF-IR program has
\* returned without a panic, the HIR run of its lowering does not panic,
\* executes no more instructions than the reference run did (so it
\* terminates), writes only a prefix of the reference output while it runs
\* and exactly the reference output once it has returned.
C1_HirMatchesReference ==
    (Stage = "hir" /\ mach.bf.status = "done" /\ mach.hir.status # "idle") =>
        /\ mach.hir.status \in {"run", "done"}
        /\ mach.hir.steps <= mach.bf.steps
        /\ mach.hir.status = "run" =>
                /\ mach.hir.steps < mach.bf.steps
                /\ IsPrefix(mach.hir.out, mach.bf.out)
        /\ mach.hir.status = "done" => mach.hir.out = mach.bf.out

C1_Witness ==
    /\ Stage = "hir"
    /\ mach.bf.status = "done"
    /\ mach.hir.status = "done"
    /\ \E k \in 1..Len(hir) : hir[k].op = "BrFor"
    /\ mach.hir.out = <<1>>


\* C2: when the HIR run of a balanced, input-free HIR program has returned
\* without ever moving the position below the origin, the LIR run of
\* gen_ir of that program does not panic, executes no more instructions than
\* the HIR run did (so it terminates), and writes exactly the HIR output.
C2_LirMatchesHir ==
    (/\ Stage = "lir"
     /\ mach.hir.status = "done"
     /\ ~mach.hir.below
     /\ mach.lir.status # "idle") =>
        /\ mach.lir.status \in {"run", "done"}
        /\ mach.lir.steps <= mach.hir.steps
        /\ mach.lir.status = "run" =>
                /\ mach.lir.steps < mach.hir.steps
                /\ IsPrefix(mach.lir.out, mach.hir.out)
        /\ mach.lir.status = "done" => mach.lir.out = mach.hir.out

C2_Witness ==
    /\ Stage = "lir"
    /\ mach.lir.status = "done"
    /\ \E k \in 1..Len(lir) : lir[k].op = "MoveCell"
    /\ mach.lir.out = <<2>>

-----------------------------------------------------------------------------
(* The end-to-end scenarios, run on every backend in turn *)

Scenarios ==
    { <<"+", "+", "+", ".">>,
      <<"+", "+", "+", "+", "+", "[", "-", "]", ".">>,
      <<"+", "+", "+", "+", "+", "[", "-", ">", "+", "<", "]", ">", ".">>,
      <<"+", "+", "[", ">", "+", "+", "+", "<", "-", "]", ">", ".">>,
      <<"-", ".">> }

InitScenario ==
    /\ bf \in {parse(t) : t \in Scenarios}
    /\ hir = <<>>
    /\ lir = <<>>
    /\ mach = Machines
    /\ turn = <<"lower", "gen_ir", "bf", "hir", "lir", "jit">>
    /\ overflow_checks \in BOOLEAN
    /\ text = <<>>
    /\ entry = NewState

\* LirInterpreter::execute has returned Ok
LirReturn ==
    /\ Stage = "lir"
    /\ mach.lir.status = "done"
    /\ turn' = Tail(turn)
    /\ UNCHANGED <<bf, hir, lir, mach, overflow_checks, entry, text>>

\* Jit::jit up to asm.finalize(), and the caller's zeroed arrays
JitBegin ==
    /\ Stage = "jit"
    /\ mach.jit.status = "idle"
    /\ mach' = [mach EXCEPT !.jit = JitStart(lir)]
    /\ UNCHANGED <<bf, hir, lir, turn, overflow_checks, entry, text>>

\* func(cells.as_mut_ptr(), buff.as_mut_ptr()), one instruction's code
JitStep ==
    /\ Stage = "jit"
    /\ mach.jit.status = "run"
    /\ mach.jit.steps < MaxSteps
    /\ mach' = [mach EXCEPT !.jit = JitExec(@)]
    /\ UNCHANGED <<bf, hir, lir, turn, overflow_checks, entry, text>>

\* after the native function returns the buffer is written to stdout
JitFlush ==
    /\ Stage = "jit"
    /\ mach.jit.status = "returned"
    /\ mach' = [mach EXCEPT !.jit = JitFlushed(@)]
    /\ UNCHANGED <<bf, hir, lir, turn, overflow_checks, entry, text>>

NextScenario ==
    \/ Lower \/ GenIr
    \/ BfBegin \/ BfStep \/ BfReturn
    \/ HirBegin \/ HirStep \/ HirReturn
    \/ LirBegin \/ LirStep \/ LirReturn
    \/ JitBegin \/ JitStep \/ JitFlush

SpecScenario == InitScenario /\ [][NextScenario]_vars

\* C3: for each scenario program the bytes the JIT call protocol writes to
\* stdout are exactly the bytes the LIR interpreter wrote for that program.
C3_JitMatchesLir ==
    (Stage = "jit" /\ mach.jit.status = "done") =>
        mach.jit.out = mach.lir.out

-----------------------------------------------------------------------------
(* Branch tables: any instruction sequence, balanced or not, handed to the *)
(* HIR interpreter or to the LIR interpreter                               *)

TableOps == {Modify(1), Out, BrFor, BrBack}

InitTable ==
    /\ bf = <<>>
    /\ mach = Machines
    /\ overflow_checks \in BOOLEAN
    /\ text = <<>>
    /\ entry = NewState
    /\ \E p \in SeqsUpTo(TableOps, MaxTableLen) :
            \/ hir = p /\ lir = <<>> /\ turn = <<"hir">>
            \/ hir = <<>> /\ lir = p /\ turn = <<"lir">>

NextTable == HirBegin \/ HirStep \/ LirBegin \/ LirStep

SpecTable == InitTable /\ [][NextTable]_vars

\* the runs that have been entered
Entered == {k \in {"hir", "lir"} : mach[k].status # "idle"}

\* 0-based bracket indices of a program
Fors(program) == {i \in 0..(Len(program) - 1) : program[i + 1].op = "BrFor"}
Backs(program) == {i \in 0..(Len(program) - 1) : program[i + 1].op = "BrBack"}

\* the BrBacks behind the BrFor at i that close the depth the BrFor opened
ClosersOf(program, i) ==
    {j \in Backs(program) :
        j > i /\ DepthAfter(program, j + 1) = DepthAfter(program, i)}

\* the BrFors in front of the BrBack at j that opened the depth it closes
OpenersOf(program, j) ==
    {i \in Fors(program) :
        /\ i < j
        /\ DepthAfter(program, i) = DepthAfter(program, j + 1)
        /\ \A k \in (i + 1)..j : DepthAfter(program, k) > DepthAfter(program, i)}

Min(S) == CHOOSE x \in S : \A y \in S : x <= y

TableWellFormed(program, table) ==
    LET brackets == Fors(program) \cup Backs(program)
        t(i) == table[i + 1]
    IN  /\ \A i \in brackets :
            /\ t(i) \in brackets
            /\ program[t(i) + 1].op # program[i + 1].op
            /\ t(t(i)) = i
        /\ \A i \in Fors(program) :
            /\ t(i) > i
            /\ ClosersOf(program, i) # {}
            /\ t(i) = Min(ClosersOf(program, i))
        /\ \A i, k \in Fors(program) :
            (i < k /\ k < t(i)) => t(k) < t(i)

\* C4: for a balanced HIR or LIR sequence gen_branch_table succeeds and its
\* table pairs every bracket with one of the opposite kind, is an involution
\* on bracket indices, sends each BrFor forward to the first BrBack at its
\* own nesting depth, and nests the pairs properly.
C4_BranchTable ==
    \A k \in Entered :
        Balanced(mach[k].program) =>
            /\ mach[k].status # "panic"
            /\ TableWellFormed(mach[k].program, mach[k].branch_table)

C4_Witness ==
    /\ mach.lir.status = "run"
    /\ mach.lir.program = <<BrFor, BrFor, BrBack, Out, BrBack>>
    /\ mach.lir.branch_table = <<4, 2, 1, 0, 0>>

HasUnmatchedFor(program) ==
    \E i \in Fors(program) : ClosersOf(program, i) = {}

\* C5: a sequence with a BrFor that no BrBack closes makes the interpreter
\* panic in gen_branch_table: no instruction has been executed, no byte
\* written and no cell touched.
C5_UnmatchedForIsFatal ==
    \A k \in Entered :
        HasUnmatchedFor(mach[k].program) =>
            /\ mach[k].status = "panic"
            /\ mach[k].steps = 0
            /\ mach[k].out = <<>>
            /\ mach[k].state = entry

C5_Witness ==
    /\ mach.hir.program = <<BrFor, Modify(1)>>
    /\ mach.hir.status = "panic"

HasUnmatchedBack(program) ==
    \E j \in Backs(program) : OpenersOf(program, j) = {}

\* C6: a sequence with a BrBack that no BrFor opens makes branch-table
\* construction fail, so the interpreter never executes an instruction of it.
C6_UnmatchedBackIsFatal ==
    \A k \in Entered :
        HasUnmatchedBack(mach[k].program) =>
            /\ mach[k].status = "panic"
            /\ mach[k].steps = 0

-----------------------------------------------------------------------------
(* One Modify against the run of Inc or Dec it stands for: the reference  *)
(* interpreter is handed the run one instruction at a time, from a tape   *)
(* whose current cell holds any byte                                      *)

InitModify ==
    /\ bf = <<>>
    /\ hir = <<>>
    /\ lir = <<>>
    /\ \E c \in 0..255 : entry = [cells |-> <<c>>, pos |-> 0]
    /\ mach = [Machines EXCEPT !.bf = [NewRun(<<>>) EXCEPT !.state = entry]]
    /\ turn = <<"bf", "lower", "gen_ir", "hir", "lir">>
    /\ overflow_checks \in BOOLEAN
    /\ text = <<>>

\* the run grows by one more of the same instruction, which the reference
\* interpreter executes
BfFeed ==
    /\ Stage = "bf"
    /\ Len(bf) < MaxDelta
    /\ \E op \in {Inc, Dec} :
        /\ IF bf = <<>> THEN TRUE ELSE bf[Len(bf)] = op
        /\ bf' = Append(bf, op)
        /\ mach' = [mach EXCEPT !.bf =
                        BfExec([@ EXCEPT !.program = bf', !.status = "run"], 0)]
    /\ UNCHANGED <<hir, lir, turn, overflow_checks, entry, text>>

\* the cells and the run lengths at which the 8-bit arithmetic changes
\* shape: both ends of the byte range, the i8 boundary, one full turn
KeyCells == {0, 1, 127, 128, 255}
KeyRuns == {1, 2, 127, 128, 129, 255, 256, MaxDelta}

\* the run ends here and the program goes through the pipeline: every run
\* length for a key cell, every cell for a key run length
RunEnds ==
    /\ Stage = "bf"
    /\ mach.bf.status = "done"
    /\ read_cell(entry, 0) \in KeyCells \/ Len(bf) \in KeyRuns
    /\ turn' = Tail(turn)
    /\ UNCHANGED <<bf, hir, lir, mach, overflow_checks, entry, text>>

NextModify ==
    \/ BfFeed \/ RunEnds \/ Lower \/ GenIr
    \/ HirBegin \/ HirStep \/ HirReturn \/ LirBegin \/ LirStep

SpecModify == InitModify /\ [][NextModify]_vars

\* Inc count minus Dec count of a BF-IR sequence
NetDelta(program) ==
    Cardinality({k \in 1..Len(program) : program[k] = Inc})
        - Cardinality({k \in 1..Len(program) : program[k] = Dec})

\* C7: when the HIR or LIR interpreter has executed the single Modify(d) that
\* a run of Inc or of Dec lowers to, from a tape whose cell holds c, the cell
\* holds (c + d) mod 256, which is what the reference interpreter reached by
\* executing the run one instruction at a time.
C7_ModifyWraps ==
    \A k \in {"hir", "lir"} :
        (mach[k].status = "done" /\ Len(mach[k].program) = 1) =>
            /\ mach[k].program = <<Modify(NetDelta(bf))>>
            /\ read_cell(mach[k].state, 0)
                    = (read_cell(entry, 0) + NetDelta(bf)) % 256
            /\ read_cell(mach[k].state, 0) = read_cell(mach.bf.state, 0)

\* Dec on a zero cell gives 255, and a run longer than 256 has been folded
C7_Witness ==
    /\ mach.hir.status = "done"
    /\ mach.lir.status = "done"
    /\ mach.lir.program = <<Modify(-MaxDelta)>>
    /\ read_cell(entry, 0) = 0
    /\ read_cell(mach.lir.state, 0) = 255

-----------------------------------------------------------------------------
(* The lowerer's output, in the pipeline of Spec *)

\* HirGen::lower has run on bf
Lowered == "lower" \notin {turn[k] : k \in 1..Len(turn)}

\* C8: in the sequence HirGen::lower produced, no two adjacent elements are
\* both Modify and no two adjacent elements are both Move.
C8_NoAdjacentRuns ==
    Lowered =>
        \A k \in 1..(Len(hir) - 1) :
            /\ ~(hir[k].op = "Modify" /\ hir[k + 1].op = "Modify")
            /\ ~(hir[k].op = "Move" /\ hir[k + 1].op = "Move")

C8_Witness ==
    /\ Lowered
    /\ bf = <<Inc, Inc, MvRight, MvLeft, MvRight>>
    /\ hir = <<Modify(2), Move(1)>>

NoZeroArg(h) ==
    \A k \in 1..Len(h) : h[k].op \in {"Modify", "Move"} => h[k].arg # 0

\* C9 as stated: expanding the sequence HirGen::lower produced with
\* to_compact and lowering the expansion again yields the same sequence.
C9_Idempotent ==
    Lowered => gen(CompactAll(hir)) = hir

\* C9: expanding the sequence HirGen::lower produced with to_compact and
\* lowering the expansion again yields the same sequence, provided the
\* sequence holds no Modify(0) and no Move(0).
C9_IdempotentNonZero ==
    (Lowered /\ NoZeroArg(hir)) => gen(CompactAll(hir)) = hir

C9_Witness ==
    /\ Lowered
    /\ hir = <<Modify(2), Move(-1), Modify(-1), Out>>
    /\ CompactAll(hir) = <<"+", "+", "<", "-", ".">>
    /\ gen(CompactAll(hir)) = hir

-----------------------------------------------------------------------------
(* Pass B on one simple loop: the LIR interpreter runs the loop as written *)
(* and the block Pass B makes of it, iteration by iteration, from any     *)
(* small tape                                                             *)

SimpleLoops ==
    {<<BrFor>> \o body \o <<BrBack>> : body \in SeqsUpTo(LoopOps, MaxLoop)}

Tapes ==
    {[cells |-> c, pos |-> p] :
        c \in SeqsUpTo({0, 1, 255}, MaxTape), p \in 0..MaxTape}

InitLoop ==
    /\ bf = <<>>
    /\ hir = <<>>
    /\ lir \in SimpleLoops
    /\ mach = Machines
    /\ turn = <<"lir0", "pass_b", "lir">>
    /\ overflow_checks \in BOOLEAN
    /\ text = <<>>
    /\ entry \in Tapes

\* iterations completed by a run of a loop with a straight-line body
Iters(m) ==
    IF m.steps = 0 THEN 0 ELSE (m.steps - 1) \div (Len(m.program) - 1)

\* the BrBack has just been taken or passed, or the run is over
AtBoundary(before, after) ==
    \/ Get(before.program, before.instr_pointer).op = "BrBack"
    \/ after.status # "run"

\* LirInterpreter::execute is entered with the loop as written
LoopBegin ==
    /\ Stage = "lir0"
    /\ mach.lir0.status = "idle"
    /\ mach' = [mach EXCEPT !.lir0 = LirStart(lir)]
    /\ turn' = Tail(turn)
    /\ UNCHANGED <<bf, hir, lir, overflow_checks, entry, text>>

\* the second loop of LirGen::gen_ir alone
PassBOnly ==
    /\ Stage = "pass_b"
    /\ lir' = PassB(lir, 0)
    /\ turn' = Tail(turn)
    /\ UNCHANGED <<bf, hir, mach, overflow_checks, entry, text>>

\* LirInterpreter::execute is entered with the block; the loop as written
\* goes first
BlockBegin ==
    /\ Stage = "lir"
    /\ mach.lir.status = "idle"
    /\ mach' = [mach EXCEPT !.lir = LirStart(lir)]
    /\ turn' = <<"lir0">>
    /\ UNCHANGED <<bf, hir, lir, overflow_checks, entry, text>>

\* one instruction of the loop as written; at the end of an iteration the
\* block takes over
LoopStep ==
    /\ Stage = "lir0"
    /\ mach.lir0.status = "run"
    /\ Iters(mach.lir0) < MaxIters
    /\ LET after == LirExec(mach.lir0, 0, overflow_checks)
       IN  /\ mach' = [mach EXCEPT !.lir0 = after]
           /\ turn' = IF AtBoundary(mach.lir0, after) THEN <<"lir">> ELSE turn
    /\ UNCHANGED <<bf, hir, lir, overflow_checks, entry, text>>

\* one instruction of the block; at the end of an iteration the loop as
\* written takes over
BlockStep ==
    /\ Stage = "lir"
    /\ mach.lir.status = "run"
    /\ LET after == LirExec(mach.lir, 0, overflow_checks)
       IN  /\ mach' = [mach EXCEPT !.lir = after]
           /\ turn' = IF AtBoundary(mach.lir, after) THEN <<"lir0">> ELSE turn
    /\ UNCHANGED <<bf, hir, lir, overflow_checks, entry, text>>

NextLoop == LoopBegin \/ PassBOnly \/ BlockBegin \/ LoopStep \/ BlockStep

SpecLoop == InitLoop /\ [][NextLoop]_vars

\* the block has caught up: each run is over or stands behind its BrFor
\* with an iteration just completed
Compared ==
    /\ Stage = "lir0"
    /\ mach.lir.status # "idle"
    /\ mach.lir0.status = "run" => mach.lir0.instr_pointer = 1
    /\ mach.lir.status = "run" => mach.lir.instr_pointer = 1 /\ mach.lir.steps > 0

SameAfterIteration ==
    /\ mach.lir.status = mach.lir0.status
    /\ Iters(mach.lir) = Iters(mach.lir0)
    /\ mach.lir.status # "panic" => mach.lir.state = mach.lir0.state

-----------------------------------------------------------------------------
(* The loop BrFor, Modify(d), BrBack entered with any byte in the current *)
(* cell: the HIR run of the loop, then the LIR run of what gen_ir makes   *)
(* of it                                                                  *)

InitZero ==
    /\ bf = <<>>
    /\ \E d \in (-MaxLoopDelta)..MaxLoopDelta : hir = <<BrFor, Modify(d), BrBack>>
    /\ lir = <<>>
    /\ mach = Machines
    /\ turn = <<"gen_ir", "hir", "lir">>
    /\ overflow_checks \in BOOLEAN
    /\ text = <<>>
    /\ \E c \in 0..255 : entry = [cells |-> <<c>>, pos |-> 0]

SpecZero == InitZero /\ [][NextHir]_vars

\* the run stands behind the BrFor after a BrBack was taken, on the tape it
\* entered the loop with: every later iteration repeats the ones before
Recurs(m) ==
    /\ m.status = "run"
    /\ m.instr_pointer = 1
    /\ m.steps > 1
    /\ m.state = entry

\* C11: for every nonzero d and every entry value of the current cell the
\* HIR run of BrFor, Modify(d), BrBack never comes back to a state it was
\* in (so it terminates), it ends with the current cell 0, and the LIR run
\* of the WriteZero that gen_ir makes of the loop ends on the same tape.
C11_WriteZeroMatchesLoop ==
    (Len(hir) = 3 /\ hir[2].op = "Modify" /\ hir[2].arg # 0) =>
        /\ ~Recurs(mach.hir)
        /\ mach.hir.status = "done" => read_cur_cell(mach.hir.state) = 0
        /\ mach.lir.status = "done" =>
                /\ mach.lir.program = <<WriteZero>>
                /\ mach.lir.state = mach.hir.state

-----------------------------------------------------------------------------
(* Transfer-shaped loops: source text of the form [ a m1 b m2 ] with a, b *)
(* one Inc or Dec and m1, m2 runs of MvRight/MvLeft, through lower and    *)
(* gen_ir                                                                 *)

MoveRuns == SeqsUpTo({MvRight, MvLeft}, MaxMoveRun)

TransferLoops ==
    {<<BrFor, a>> \o m1 \o <<b>> \o m2 \o <<BrBack>> :
        a \in {Inc, Dec}, b \in {Inc, Dec}, m1 \in MoveRuns, m2 \in MoveRuns}

InitTransfer ==
    /\ bf \in TransferLoops
    /\ hir = <<>>
    /\ lir = <<>>
    /\ mach = Machines
    /\ turn = <<"lower", "gen_ir">>
    /\ overflow_checks \in BOOLEAN
    /\ text = <<>>
    /\ entry = NewState

NextTransfer == Lower \/ GenIr

SpecTransfer == InitTransfer /\ [][NextTransfer]_vars

\* LirGen::gen_ir has run on hir
Generated == Lowered /\ "gen_ir" \notin {turn[k] : k \in 1..Len(turn)}

\* C12: every MoveCell(d) in the output of gen_ir has d # 0 and stands for
\* a loop whose body is exactly Modify(-1), Move(d), Modify(1), Move(-d).
C12_MoveCellOnlyForTransfer ==
    Generated =>
        \A k \in 1..Len(lir) :
            lir[k].op = "MoveCell" =>
                /\ lir[k].arg # 0
                /\ hir = <<BrFor, Modify(-1), Move(lir[k].arg), Modify(1),
                           Move(-lir[k].arg), BrBack>>

-----------------------------------------------------------------------------
(* One MoveCell on the LIR interpreter and in the JIT: the instructions   *)
(* in front of it put a byte in the current cell and a byte in the cell   *)
(* at the offset                                                          *)

\* Modify(0) is what the lowerer makes of a run that sums to zero
CellSeeds == {Modify(0), Modify(1), Modify(-1)}

MoveCellPrograms ==
    {<<Move(p), a, Move(off), b, Move(-off), MoveCell(off)>> :
        p \in 0..MaxOff, a \in CellSeeds, b \in CellSeeds,
        off \in (-MaxOff)..MaxOff}

InitMoveCell ==
    /\ bf = <<>>
    /\ hir = <<>>
    /\ lir \in MoveCellPrograms
    /\ mach = Machines
    /\ turn = <<"lir", "jit">>
    /\ overflow_checks \in BOOLEAN
    /\ text = <<>>
    /\ entry = NewState

NextMoveCell ==
    \/ LirBegin \/ LirStep \/ LirReturn
    \/ JitBegin \/ JitStep \/ JitFlush

SpecMoveCell == InitMoveCell /\ [][NextMoveCell]_vars

\* both tapes hold the same byte in every cell either of them has touched
SameCells(s, t) ==
    \A i \in 0..(Len(s.cells) + Len(t.cells)) : read_cell(s, i) = read_cell(t, i)

\* C13: when the LIR interpreter has returned from a program that ends in
\* MoveCell(off) and the native code of the same program has returned, the
\* two tapes hold the same value in every cell.
C13_JitMoveCellMatchesLir ==
    (/\ mach.lir.status = "done"
     /\ mach.jit.status \in {"returned", "done"}) =>
        SameCells(mach.jit.state, mach.lir.state)

-----------------------------------------------------------------------------
(* The hop-scan scenario and a text whose hop does scan, on the three     *)
(* interpreters                                                           *)

HopScanText ==
    <<"+", "+", ">", "+", "+", ">", "+", "+", "+", ">", "[", "<", "]", "<", ".">>

HopScans ==
    { HopScanText,
      <<">", "+", "+", ">", "+", "+", ">", "+", "+", "+", "[", "<", "]", ".">> }

InitHopScan ==
    /\ bf \in {parse(t) : t \in HopScans}
    /\ hir = <<>>
    /\ lir = <<>>
    /\ mach = Machines
    /\ turn = <<"lower", "gen_ir", "bf", "hir", "lir">>
    /\ overflow_checks \in BOOLEAN
    /\ text = <<>>
    /\ entry = NewState

NextHopScan ==
    \/ Lower \/ GenIr
    \/ BfBegin \/ BfStep \/ BfReturn
    \/ HirBegin \/ HirStep \/ HirReturn
    \/ LirBegin \/ LirStep

SpecHopScan == InitHopScan /\ [][NextHopScan]_vars

Interpreters == {"bf", "hir", "lir"}

\* C14 as stated: each interpreter that has returned from the hop-scan
\* program has written exactly the one byte 0.
C14_HopScanWritesZero ==
    \A k \in Interpreters :
        (bf = parse(HopScanText) /\ mach[k].status = "done") =>
            mach[k].out = <<0>>

\* C14: no interpreter panics on the hop-scan program, none writes anything
\* but the one byte 3, and each that has returned has written exactly that
\* byte.
C14_HopScanWritesThree ==
    \A k \in Interpreters :
        bf = parse(HopScanText) =>
            /\ mach[k].status # "panic"
            /\ IsPrefix(mach[k].out, <<3>>)
            /\ mach[k].status = "done" => mach[k].out = <<3>>

C14_Witness ==
    /\ bf = parse(HopScanText)
    /\ \A k \in Interpreters : mach[k].status = "done" /\ mach[k].out = <<3>>
    /\ \E k \in 1..Len(lir) : lir[k] = Hop(-1)

-----------------------------------------------------------------------------
(* The tape: the LIR interpreter on every short program over the          *)
(* instructions that read, write or move                                  *)

TapeOps ==
    {Modify(1), Move(1), Move(-1), In, WriteZero, MoveCell(1), MoveCell(-1),
     Hop(1)}

InitTape ==
    /\ bf = <<>>
    /\ hir = <<>>
    /\ lir \in SeqsUpTo(TapeOps, MaxTapeProg)
    /\ mach = Machines
    /\ turn = <<"lir">>
    /\ overflow_checks \in BOOLEAN
    /\ text = <<>>
    /\ entry = NewState

NextTape == LirBegin \/ LirStep

SpecTape == InitTape /\ [][NextTape]_vars

\* what read_cell and set_cell would do to the tape of each run, at every
\* index up to two past its end
TapeReadsAndWrites ==
    \A k \in DOMAIN mach :
        LET s == mach[k].state
            n == Len(s.cells)
        IN  \A i \in 0..(n + 2) :
                /\ i >= n => read_cell(s, i) = 0
                /\ \A val \in {0, 1, 255} :
                    LET t == set_cell(s, val, i)
                    IN  /\ Len(t.cells) = (IF i >= n THEN i + 1 ELSE n)
                        /\ read_cell(t, i) = val
                        /\ t.pos = s.pos
                        /\ \A j \in 0..(n + 3) :
                                j # i => read_cell(t, j) = read_cell(s, j)

\* no step of any run shortens its tape
TapeGrows ==
    \A k \in DOMAIN mach :
        Len(mach'[k].state.cells) >= Len(mach[k].state.cells)

\* C15: on every reachable tape a read at or beyond the length gives 0, a
\* write at index i leaves a tape that reaches i, holds the value at i and
\* holds what it held everywhere else (zeros in the cells added), and no
\* step makes a tape shorter.
C15_TapeInvariants ==
    []TapeReadsAndWrites /\ [][TapeGrows]_vars

\* a write two cells past the end has left a zero between
C15_Witness ==
    /\ mach.lir.status = "done"
    /\ mach.lir.program = <<Move(1), Move(1), In>>
    /\ mach.lir.state.cells = <<0, 0, 255>>

-----------------------------------------------------------------------------
(* Program text through the parser and the lowerer                        *)

\* the eight command bytes, a letter and a newline
Bytes == {"+", "-", ">", "<", ".", ",", "[", "]", "x", "\n"}

InitParse ==
    /\ text \in SeqsUpTo(Bytes, MaxText)
    /\ bf = <<>>
    /\ hir = <<>>
    /\ lir = <<>>
    /\ mach = Machines
    /\ turn = <<"parse", "lower">>
    /\ overflow_checks \in BOOLEAN
    /\ entry = NewState

\* BfParser::parse on the bytes of the file
Parse ==
    /\ Stage = "parse"
    /\ bf' = parse(text)
    /\ turn' = Tail(turn)
    /\ UNCHANGED <<hir, lir, mach, overflow_checks, entry, text>>

NextParse == Parse \/ Lower

SpecParse == InitParse /\ [][NextParse]_vars

\* BfParser::parse has run on text
Parsed == "parse" \notin {turn[k] : k \in 1..Len(turn)}

IsCommand(c) == c \in {"+", "-", ">", "<", ".", ",", "[", "]"}

CommandOp(c) ==
    IF c = "+" THEN Inc ELSE IF c = "-" THEN Dec
    ELSE IF c = ">" THEN MvRight ELSE IF c = "<" THEN MvLeft
    ELSE IF c = "." THEN Out ELSE IF c = "," THEN In
    ELSE IF c = "[" THEN BrFor ELSE BrBack

\* C16: the sequence BfParser::parse returns is the subsequence of command
\* bytes of the text, each mapped to its BF-IR op, in order; other bytes are
\* dropped and brackets are not matched up.
C16_ParseKeepsCommands ==
    Parsed =>
        LET commands == SelectSeq(text, IsCommand)
        IN  bf = [k \in 1..Len(commands) |-> CommandOp(commands[k])]

C16_Witness ==
    /\ Parsed
    /\ text = <<"]", "x", ",", "[">>
    /\ bf = <<BrBack, In, BrFor>>

\* which arm of the match in lower an instruction takes
Kind(op) ==
    IF op.op \in {"Inc", "Dec"} THEN "modify"
    ELSE IF op.op \in {"MvRight", "MvLeft"} THEN "move" ELSE "single"

\* the indices (from 1) at which a maximal run or a single instruction starts
GroupStarts(ops) ==
    {k \in 1..Len(ops) :
        \/ k = 1
        \/ Kind(ops[k]) = "single"
        \/ Kind(ops[k]) # Kind(ops[k - 1])}

\* the j-th smallest element of a set of numbers
Nth(S, j) == CHOOSE x \in S : Cardinality({y \in S : y < x}) = j - 1

\* the last index of the group that starts at s
GroupEnd(ops, s) ==
    IF \E k \in GroupStarts(ops) : k > s
    THEN Nth({k \in GroupStarts(ops) : k > s}, 1) - 1
    ELSE Len(ops)

Count(ops, s, e, name) == Cardinality({k \in s..e : ops[k].op = name})

\* what the group that starts at s stands for
GroupOp(ops, s) ==
    LET e == GroupEnd(ops, s)
    IN  IF Kind(ops[s]) = "modify"
        THEN Modify(Count(ops, s, e, "Inc") - Count(ops, s, e, "Dec"))
        ELSE IF Kind(ops[s]) = "move"
        THEN Move(Count(ops, s, e, "MvRight") - Count(ops, s, e, "MvLeft"))
        ELSE Op0(ops[s].op)

IsSingle(op) == op.op \in {"In", "Out", "BrFor", "BrBack"}

\* C17: the sequence HirGen::lower returns has one element per maximal run
\* of Inc/Dec (Modify of #Inc - #Dec), one per maximal run of MvRight/MvLeft
\* (Move of #MvRight - #MvLeft) and one per In, Out, BrFor or BrBack, in
\* input order; so the In/Out/BrFor/BrBack subsequences of input and output
\* are the same.
C17_LowerGroupsRuns ==
    Lowered =>
        /\ Len(hir) = Cardinality(GroupStarts(bf))
        /\ \A j \in 1..Len(hir) : hir[j] = GroupOp(bf, Nth(GroupStarts(bf), j))
        /\ SelectSeq(hir, IsSingle) = SelectSeq(bf, IsSingle)

C17_Witness ==
    /\ Lowered
    /\ bf = <<Dec, Dec, In, MvRight>>
    /\ hir = <<Modify(-2), In, Move(1)>>

-----------------------------------------------------------------------------
(* Control flow of the HIR and LIR interpreters                           *)

\* the index execution continues at after the instruction at pc of run m;
\* a Hop on a nonzero cell is still inside its `while`
Successor(m) ==
    LET pc == m.instr_pointer
        op == m.program[pc + 1].op
        cell == read_cur_cell(m.state)
    IN  IF op = "BrFor" /\ cell = 0 THEN m.branch_table[pc + 1] + 1
        ELSE IF op = "BrBack" /\ cell # 0 THEN m.branch_table[pc + 1] + 1
        ELSE IF op = "Hop" /\ cell # 0 THEN pc
        ELSE pc + 1

\* a step of a run of a balanced program that does not panic goes to the
\* successor, and the run is over exactly if that is the program length
StepFollows ==
    \A k \in {"hir", "lir"} :
        (/\ mach[k].status = "run"
         /\ mach'[k] # mach[k]
         /\ mach'[k].status # "panic"
         /\ Balanced(mach[k].program)) =>
            /\ mach'[k].instr_pointer = Successor(mach[k])
            /\ mach'[k].status = "done" <=>
                    Successor(mach[k]) = Len(mach[k].program)

EndsAtLength ==
    \A k \in {"hir", "lir"} :
        Balanced(mach[k].program) =>
            /\ mach[k].status = "run" =>
                    mach[k].instr_pointer < Len(mach[k].program)
            /\ mach[k].status = "done" =>
                    mach[k].instr_pointer = Len(mach[k].program)

\* C18: in a run of a balanced program by the HIR or the LIR interpreter a
\* BrFor on a zero cell and a BrBack on a nonzero cell are followed by the
\* instruction at table[pc] + 1, every other instruction and a branch not
\* taken by the one at pc + 1, and the run is over exactly when pc is the
\* program length.
C18_ControlFlow ==
    []EndsAtLength /\ [][StepFollows]_vars

\* a BrBack was taken to the first instruction of its loop body and the
\* BrFor of that loop has been executed once
C18_Witness ==
    /\ mach.lir.status = "run"
    /\ mach.lir.program = <<Modify(1), BrFor, Modify(1), BrBack>>
    /\ mach.lir.instr_pointer = 2
    /\ read_cur_cell(mach.lir.state) = 2

-----------------------------------------------------------------------------
(* Loops that read or print, through both passes of gen_ir                *)

IsIo(op) == op.op \in {"In", "Out"}

IoOps == {Modify(1), Modify(-1), Move(1), Move(-1), In, Out}

\* bodies without brackets with at least one In or Out
IoBodies ==
    {b \in SeqsUpTo(IoOps, MaxIoBody) : \E k \in 1..Len(b) : IsIo(b[k])}

\* what stands before and after the loop: nothing, an enclosing loop, a
\* loop Pass A folds, a loop Pass B folds, plain instructions
IoContexts ==
    { <<<<>>, <<>>>>,
      <<<<BrFor>>, <<BrBack>>>>,
      <<<<BrFor, Modify(-1), BrBack>>, <<>>>>,
      <<<<>>, <<BrFor, Modify(-1), Move(1), BrBack>>>>,
      <<<<BrFor, Move(1), BrBack, BrFor>>, <<Out, BrBack>>>>,
      <<<<Modify(1)>>, <<Out>>>> }

IoPrograms ==
    {c[1] \o <<BrFor>> \o b \o <<BrBack>> \o c[2] :
        c \in IoContexts, b \in IoBodies}

InitIo ==
    /\ bf = <<>>
    /\ hir \in IoPrograms
    /\ lir = <<>>
    /\ mach = Machines
    /\ turn = <<"gen_ir">>
    /\ overflow_checks \in BOOLEAN
    /\ text = <<>>
    /\ entry = NewState

NextIo == GenIr

SpecIo == InitIo /\ [][NextIo]_vars

\* the 1-based indices i < j of the simple loops of a program whose body
\* holds an In or an Out
IoLoops(program) ==
    {r \in (1..Len(program)) \X (1..Len(program)) :
        /\ r[1] < r[2]
        /\ program[r[1]].op = "BrFor"
        /\ program[r[2]].op = "BrBack"
        /\ \A k \in (r[1] + 1)..(r[2] - 1) :
                program[k].op \notin {"BrFor", "BrBack"}
        /\ \E k \in (r[1] + 1)..(r[2] - 1) : IsIo(program[k])}

\* how many In and Out ops stand among the first k instructions
RECURSIVE IoBefore(_, _)
IoBefore(program, k) ==
    IF k = 0 THEN 0
    ELSE IoBefore(program, k - 1) + (IF IsIo(program[k]) THEN 1 ELSE 0)

\* the nesting depth of each In and Out, by its rank among them
IoDepth(program, n) ==
    LET k == CHOOSE i \in 1..Len(program) :
                IsIo(program[i]) /\ IoBefore(program, i) = n
    IN  DepthAfter(program, k)

\* C19: a simple loop whose body holds an In or an Out passes both passes
\* of gen_ir untouched: BrFor, body and BrBack stand in the LIR in the same
\* order, the In/Out sequence of the LIR is that of the HIR, and each In and
\* Out stands at the same loop nesting depth.
C19_IoLoopsKept ==
    Generated =>
        /\ \A r \in IoLoops(hir) :
                \E i \in 1..Len(lir) :
                    /\ i + (r[2] - r[1]) <= Len(lir)
                    /\ SubSeq(lir, i, i + (r[2] - r[1])) = SubSeq(hir, r[1], r[2])
                    /\ IoBefore(lir, i) = IoBefore(hir, r[1])
        /\ SelectSeq(lir, IsIo) = SelectSeq(hir, IsIo)
        /\ \A n \in 1..IoBefore(hir, Len(hir)) :
                IoDepth(lir, n) = IoDepth(hir, n)

\* the loop [,-.] kept inside a loop after a loop Pass A folded into a Hop
C19_Witness ==
    /\ Generated
    /\ hir = <<BrFor, Move(1), BrBack, BrFor, BrFor, In, Modify(-1), Out,
               BrBack, Out, BrBack>>
    /\ lir = <<Hop(1), BrFor, BrFor, In, Modify(-1), Out, BrBack, Out, BrBack>>

-----------------------------------------------------------------------------
(* The fixup Move of the block Pass B emits                               *)

\* `offset` after the `for op in loop_content`: the sum of the Move deltas
RECURSIVE Drift(_)
Drift(loop_content) ==
    IF loop_content = <<>> THEN 0
    ELSE (IF Head(loop_content).op = "Move" THEN Head(loop_content).arg ELSE 0)
            + Drift(Tail(loop_content))

\* gen_ir has made a block of the one loop in hir
Folded ==
    /\ Generated
    /\ Len(lir) >= 3
    /\ lir[1] = BrFor
    /\ lir[2].op = "CnstMovSet"
    /\ lir[Len(lir)] = BrBack

\* the instructions of the block between the offset-modifies and the BrBack
Fixups == SubSeq(lir, 3, Len(lir) - 1)

\* C20 as stated: the block holds the fixup Move(drift) between the
\* offset-modifies and the BrBack if and only if the drift of the body is
\* nonzero; with drift 0 no Move is emitted.
C20_FixupOnlyWithDrift ==
    Folded =>
        LET drift == Drift(SubSeq(hir, 2, Len(hir) - 1))
        IN  Fixups = IF drift # 0 THEN <<Move(drift)>> ELSE <<>>

\* C20 as the code has it: the block always holds exactly one Move(drift)
\* between the offset-modifies and the BrBack, which is Move(0) for a body
\* with drift 0.
C20_FixupAlways ==
    Folded => Fixups = <<Move(Drift(SubSeq(hir, 2, Len(hir) - 1)))>>

\* the loop [+>+<] with drift 0, folded with a Move(0)
C20_Witness ==
    /\ Folded
    /\ hir = <<BrFor, Modify(1), Move(1), Modify(1), Move(-1), BrBack>>
    /\ lir = <<BrFor, CnstMovSet(<< <<0, 1>>, <<1, 1>> >>), Move(0), BrBack>>

-----------------------------------------------------------------------------
(* main.rs: run_n, the selected backend executed `repeat` times           *)

\* the output of each earlier execution of run_n's closure, oldest first
Calls(m) == IF "calls" \in DOMAIN m THEN m.calls ELSE <<>>

\* f() once more for an interpreter: execute builds its state anew; r is
\* the run as execute enters it, m the execution before
InterpreterAgain(r, m) ==
    [program |-> r.program, branch_table |-> r.branch_table,
     instr_pointer |-> r.instr_pointer, state |-> r.state, out |-> r.out,
     steps |-> r.steps, below |-> r.below, status |-> r.status,
     calls |-> Append(Calls(m), m.out)]

\* f() once more for the JIT: func(cells.as_mut_ptr(), buff.as_mut_ptr())
\* on the arrays main made before run_n, so x0 and x1 are back at their
\* starts and `cells` is as the call before left it
JitAgainStart(m) ==
    [program |-> m.program, branch_table |-> m.branch_table,
     instr_pointer |-> 0,
     state |-> [cells |-> m.state.cells, pos |-> 0],
     buff |-> <<>>, out |-> <<>>, steps |-> 0, below |-> FALSE,
     status |-> IF Len(m.program) = 0 THEN "returned" ELSE "run",
     calls |-> Append(Calls(m), m.buff)]

\* the `buff` array after the calls so far: each call stores from the start
\* over what the calls before left
RECURSIVE Overlay(_, _)
Overlay(calls, last) ==
    IF calls = <<>> THEN last
    ELSE LET under == Overlay(SubSeq(calls, 1, Len(calls) - 1),
                              calls[Len(calls)])
         IN  last \o SubSeq(under, Len(last) + 1, Len(under))

RepeatOps == {Inc, Dec, MvRight, MvLeft, Out, BrFor, BrBack}

RepeatPrograms == {p \in SeqsUpTo(RepeatOps, MaxRepeatLen) : Balanced(p)}

\* the stages of main for one backend flag and --repeat n
RepeatTurns ==
    {[i \in 1..n |-> "bf"] : n \in 2..MaxRepeat}
    \cup {<<"lower">> \o [i \in 1..n |-> "hir"] : n \in 2..MaxRepeat}
    \cup {<<"lower", "gen_ir">> \o [i \in 1..n |-> k] :
            n \in 2..MaxRepeat, k \in {"lir", "jit"}}

InitRepeat ==
    /\ bf \in RepeatPrograms
    /\ hir = <<>>
    /\ lir = <<>>
    /\ mach = Machines
    /\ turn \in RepeatTurns
    /\ overflow_checks \in BOOLEAN
    /\ text = <<>>
    /\ entry = NewState

\* the `for _ in 0..count` of run_n has a further turn for backend k
MoreTurns(k) == Len(turn) >= 2 /\ turn[1] = k /\ turn[2] = k

BfAgain ==
    /\ MoreTurns("bf")
    /\ mach.bf.status = "done"
    /\ mach' = [mach EXCEPT !.bf = InterpreterAgain(NewRun(bf), @)]
    /\ turn' = Tail(turn)
    /\ UNCHANGED <<bf, hir, lir, overflow_checks, entry, text>>

HirAgain ==
    /\ MoreTurns("hir")
    /\ mach.hir.status = "done"
    /\ mach' = [mach EXCEPT !.hir = InterpreterAgain(HirStart(hir), @)]
    /\ turn' = Tail(turn)
    /\ UNCHANGED <<bf, hir, lir, overflow_checks, entry, text>>

LirAgain ==
    /\ MoreTurns("lir")
    /\ mach.lir.status = "done"
    /\ mach' = [mach EXCEPT !.lir = InterpreterAgain(LirStart(lir), @)]
    /\ turn' = Tail(turn)
    /\ UNCHANGED <<bf, hir, lir, overflow_checks, entry, text>>

JitAgain ==
    /\ MoreTurns("jit")
    /\ mach.jit.status = "returned"
    /\ mach' = [mach EXCEPT !.jit = JitAgainStart(@)]
    /\ turn' = Tail(turn)
    /\ UNCHANGED <<bf, hir, lir, overflow_checks, entry, text>>

\* run_n has returned: the write_all of main.rs:125 on the array as the
\* calls left it
JitFlushAll ==
    /\ turn = <<"jit">>
    /\ mach.jit.status = "returned"
    /\ LET array == Overlay(Calls(mach.jit), mach.jit.buff)
       IN  mach' = [mach EXCEPT !.jit =
                        [JitFlushed([@ EXCEPT !.buff = array])
                            EXCEPT !.buff = mach.jit.buff]]
    /\ UNCHANGED <<bf, hir, lir, turn, overflow_checks, entry, text>>

NextRepeat ==
    \/ Lower \/ GenIr
    \/ BfBegin \/ BfStep \/ BfAgain
    \/ HirBegin \/ HirStep \/ HirAgain
    \/ LirBegin \/ LirStep \/ LirAgain
    \/ JitBegin \/ JitStep \/ JitAgain \/ JitFlushAll

SpecRepeat == InitRepeat /\ [][NextRepeat]_vars

\* the bytes an execution has produced: written by an interpreter, stored
\* through x1 by the native code
Produced(k) == IF k = "jit" THEN mach.jit.buff ELSE mach[k].out

Backends == {"bf", "hir", "lir", "jit"}

\* C21: with a repeat count of at least 2 every execution on every backend,
\* the JIT included, starts from an all-zero tape with the position at the
\* origin, and every execution that finishes has produced the bytes the
\* first one produced.
C21_EveryRunStartsFresh ==
    \A k \in Backends :
        /\ (mach[k].status = "run" /\ mach[k].steps = 0) =>
                mach[k].state = NewState
        /\ (mach[k].status \in {"done", "returned"} /\ Calls(mach[k]) # <<>>) =>
                Produced(k) = Calls(mach[k])[1]

\* the same for the three interpreters alone
C21_InterpretersStartFresh ==
    \A k \in Backends \ {"jit"} :
        /\ (mach[k].status = "run" /\ mach[k].steps = 0) =>
                mach[k].state = NewState
        /\ (mach[k].status = "done" /\ Calls(mach[k]) # <<>>) =>
                Produced(k) = Calls(mach[k])[1]

-----------------------------------------------------------------------------
(* jit.rs: the label stack, on any instruction sequence, balanced or not  *)

InitLabels ==
    /\ bf = <<>>
    /\ hir = <<>>
    /\ lir \in SeqsUpTo(TableOps, MaxTableLen)
    /\ mach = Machines
    /\ turn = <<"jit">>
    /\ overflow_checks \in BOOLEAN
    /\ text = <<>>
    /\ entry = NewState

NextLabels == JitBegin \/ JitStep \/ JitFlush

SpecLabels == InitLabels /\ [][NextLabels]_vars

\* C22: for a balanced LIR program the branch the JIT emits at each BrFor
\* and each BrBack goes to the code following the partner the table of
\* LirInterpreter::gen_branch_table gives it, and the label stack is empty
\* at the end; for an unbalanced program emission fails before any native
\* code runs.
C22_JitLabelsMatchTable ==
    mach.jit.status # "idle" =>
        LET program == mach.jit.program
            t == lir_gen_branch_table(program)
        IN  IF Balanced(program)
            THEN /\ JitEmit(program).ok
                 /\ mach.jit.status # "panic"
                 /\ t.ok
                 /\ \A i \in Fors(program) \cup Backs(program) :
                        mach.jit.branch_table[i + 1] = t.table[i + 1] + 1
            ELSE /\ mach.jit.status = "panic"
                 /\ mach.jit.steps = 0
                 /\ mach.jit.buff = <<>>

\* a nested pair of loops emitted, run and flushed
C22_Witness ==
    /\ mach.jit.status = "done"
    /\ mach.jit.program = <<BrFor, BrFor, BrBack, BrBack, Out>>
    /\ mach.jit.branch_table = <<4, 3, 2, 1, 0>>

-----------------------------------------------------------------------------
(* What one instruction of the HIR and LIR interpreters leaves alone      *)

FrameHirOps == {Modify(1), Move(1), Move(-1), In, Out, BrFor, BrBack}

FrameLirOps ==
    FrameHirOps \cup {WriteZero, Hop(1), MoveCell(1), MoveCell(-1), Meta(0),
                      CnstMovSet(<< <<1, 1>>, <<0, -1>> >>)}

FrameTapes ==
    {[cells |-> c, pos |-> p] : c \in {<<>>, <<1>>, <<0, 2>>}, p \in 0..1}

InitFrame ==
    /\ bf = <<>>
    /\ mach = Machines
    /\ overflow_checks \in BOOLEAN
    /\ text = <<>>
    /\ entry \in FrameTapes
    /\ \/ /\ hir \in SeqsUpTo(FrameHirOps, MaxFrameProg)
          /\ lir = <<>>
          /\ turn = <<"hir">>
       \/ /\ hir = <<>>
          /\ lir \in SeqsUpTo(FrameLirOps, MaxFrameProg)
          /\ turn = <<"lir">>

NextFrame == HirBegin \/ HirStep \/ LirBegin \/ LirStep

SpecFrame == InitFrame /\ [][NextFrame]_vars

\* every cell index a run of these programs on these tapes can have touched
FrameCells == 0..(2 * MaxFrameProg + 3)

FrameKept ==
    \A k \in {"hir", "lir"} :
        (mach[k].status = "run" /\ mach'[k] # mach[k]) =>
            LET op == mach[k].program[mach[k].instr_pointer + 1].op
            IN  /\ op \notin {"Move", "Hop"} =>
                        mach'[k].state.pos = mach[k].state.pos
                /\ op \in {"Move", "Hop", "Out", "BrFor", "BrBack", "Meta"} =>
                        /\ \A i \in FrameCells :
                                read_cell(mach'[k].state, i)
                                    = read_cell(mach[k].state, i)
                        /\ Len(mach'[k].state.cells) = Len(mach[k].state.cells)

\* C23: in the HIR and LIR interpreters only Move and Hop change the
\* position (Modify, the offset-modify set, WriteZero, MoveCell, In, Out,
\* BrFor, BrBack and Meta leave it), and Move, Hop, Out, BrFor, BrBack and
\* Meta leave the read value of every cell unchanged.
C23_FrameOfEachInstruction == [][FrameKept]_vars

\* a MoveCell has carried 2 one cell to the right, then the offset-modify
\* set has run: the position is still 1
C23_Witness ==
    /\ mach.lir.status = "done"
    /\ mach.lir.program = <<MoveCell(1), CnstMovSet(<< <<1, 1>>, <<0, -1>> >>)>>
    /\ mach.lir.state = [cells |-> <<0, 255, 3>>, pos |-> 1]

-----------------------------------------------------------------------------
(* gen_ir on balanced HIR: what the two passes consume                    *)

InitGen ==
    /\ bf = <<>>
    /\ hir \in HirPrograms
    /\ lir = <<>>
    /\ mach = Machines
    /\ turn = <<"gen_ir">>
    /\ overflow_checks \in BOOLEAN
    /\ text = <<>>
    /\ entry = NewState

SpecGen == InitGen /\ [][NextIo]_vars

\* stands for one recognised loop, in the HIR or as rewritten in the LIR
Loop == Op0("Loop")

\* the index of the BrBack closing a simple Modify/Move loop that opens at
\* k, or 0
FoldableEnd(h, k) ==
    IF h[k].op # "BrFor" THEN 0
    ELSE LET closers == {j \in (k + 1)..Len(h) :
                            /\ h[j].op = "BrBack"
                            /\ \A i \in (k + 1)..(j - 1) :
                                    h[i].op \in {"Modify", "Move"}}
         IN  IF closers = {} THEN 0 ELSE CHOOSE j \in closers : TRUE

\* the HIR from index k on with each simple Modify/Move loop replaced by Loop
RECURSIVE HirOutline(_, _)
HirOutline(h, k) ==
    IF k > Len(h) THEN <<>>
    ELSE IF FoldableEnd(h, k) # 0
    THEN <<Loop>> \o HirOutline(h, FoldableEnd(h, k) + 1)
    ELSE <<h[k]>> \o HirOutline(h, k + 1)

\* the LIR from index k on with each WriteZero, Hop, MoveCell and each
\* BrFor, offset-modify set, Move, BrBack block replaced by Loop
RECURSIVE LirOutline(_, _)
LirOutline(l, k) ==
    IF k > Len(l) THEN <<>>
    ELSE IF l[k].op \in {"WriteZero", "Hop", "MoveCell"}
    THEN <<Loop>> \o LirOutline(l, k + 1)
    ELSE IF /\ k + 3 <= Len(l)
            /\ l[k] = BrFor
            /\ l[k + 1].op = "CnstMovSet"
            /\ l[k + 2].op = "Move"
            /\ l[k + 3] = BrBack
    THEN <<Loop>> \o LirOutline(l, k + 4)
    ELSE <<l[k]>> \o LirOutline(l, k + 1)

\* C24: for balanced HIR gen_ir returns balanced LIR; each loop Pass A or
\* Pass B recognises is replaced as a whole (its BrFor, body and BrBack and
\* nothing else), so outside the recognised loops the LIR is the HIR, op by
\* op, and every bracket left keeps its partner and nesting depth.
C24_GenIrKeepsBrackets ==
    (Generated /\ Balanced(hir)) =>
        /\ Balanced(lir)
        /\ LirOutline(lir, 1) = HirOutline(hir, 1)
        /\ \A n \in 1..Len(HirOutline(hir, 1)) :
                DepthAfter(LirOutline(lir, 1), n)
                    = DepthAfter(HirOutline(hir, 1), n)

\* an inner loop folded by Pass A inside a loop that is kept
C24_Witness ==
    /\ Generated
    /\ hir = <<BrFor, BrFor, Modify(1), BrBack, BrBack>>
    /\ lir = <<BrFor, WriteZero, BrBack>>

-----------------------------------------------------------------------------
(* lir.rs: Hop with a positive stride, from any tape                      *)

HopTapes ==
    {[cells |-> c, pos |-> p] :
        c \in SeqsUpTo({0, 1, 255}, MaxHopTape), p \in 0..(MaxHopTape + 1)}

InitHop ==
    /\ bf = <<>>
    /\ hir = <<>>
    /\ lir \in {<<Hop(stride)>> : stride \in 1..MaxStride}
    /\ mach = Machines
    /\ turn = <<"lir">>
    /\ overflow_checks \in BOOLEAN
    /\ text = <<>>
    /\ entry \in HopTapes

SpecHop == InitHop /\ [][NextTape]_vars

\* the smallest k >= 0 for which the cell at pos + k * stride reads zero;
\* one exists because cells past the end read zero
ZeroAt(state, i) == i >= Len(state.cells) \/ state.cells[i + 1] = 0

HopCount(state, stride) ==
    CHOOSE k \in 0..(Len(state.cells) + 1) :
        /\ ZeroAt(state, state.pos + k * stride)
        /\ \A j \in 0..(k - 1) : ~ZeroAt(state, state.pos + j * stride)

-----------------------------------------------------------------------------
(* parser.rs: the bracket scans of the reference interpreter against the  *)
(* branch table                                                           *)

\* the HIR op one BF-IR op stands for by itself
SingleHir(op) ==
    CASE op.op = "Inc" -> Modify(1)
      [] op.op = "Dec" -> Modify(-1)
      [] op.op = "MvRight" -> Move(1)
      [] op.op = "MvLeft" -> Move(-1)
      [] OTHER -> op

\* the branch table for the bracket structure of a BF-IR program
TableOf(program) ==
    hir_gen_branch_table([k \in 1..Len(program) |-> SingleHir(program[k])]).table

ScanFollowsTable ==
    (/\ mach.bf.status = "run"
     /\ mach'.bf # mach.bf
     /\ Balanced(mach.bf.program)) =>
        LET program == mach.bf.program
            i == mach.bf.instr_pointer
            op == program[i + 1].op
            zero == read_cur_cell(mach.bf.state) = 0
            table == TableOf(program)
            stop == mach'.bf.instr_pointer - 1
        IN  /\ (op = "BrFor" /\ zero) =>
                    /\ stop = table[i + 1]
                    /\ program[stop + 1].op = "BrBack"
                    /\ stop > i
            /\ (op = "BrBack" /\ ~zero) =>
                    /\ stop = table[i + 1]
                    /\ program[stop + 1].op = "BrFor"
                    /\ table[stop + 1] = i
            /\ op \in {"BrFor", "BrBack"} => mach'.bf.status # "panic"

\* C26: for a balanced program the forward scan of the BF interpreter from
\* a BrFor at i on a zero cell stops at the BrBack j with table[i] = j, and
\* the backward scan from a BrBack j on a nonzero cell stops at the BrFor i
\* with table[i] = j.
C26_ScansFollowTable == [][ScanFollowsTable]_vars

\* the backward scan from the inner BrBack has just stopped at the inner
\* BrFor, inside an outer loop
C26_Witness ==
    /\ mach.bf.status = "run"
    /\ mach.bf.program = <<Inc, BrFor, BrFor, BrBack, BrBack>>
    /\ mach.bf.instr_pointer = 3
    /\ mach.bf.steps = 4
====
